---- MODULE Spec2Model ----
(***************************************************************************)
(* Galactic agent: the local Register/Deregister service, the remote       *)
(* receive handler and the kernel programming layer (SRv6 ingress and      *)
(* egress routes, proxy neighbours), with the identifier codec they use.   *)
(*                                                                         *)
(* Texts are sequences of one-character strings.  An IPv6 address is its   *)
(* eight 16-bit groups.  The kernel tables are what netlink reports: for   *)
(* every (table, destination) the list of routes held under that key, and  *)
(* the set of proxy neighbour entries.                                     *)
(***************************************************************************)
EXTENDS Integers, Sequences, FiniteSets, TLC

(* ------------------------------ bounds -------------------------------- *)

MaxCalls == 2       \* Register/Deregister calls made in one behaviour
MaxNets == 2        \* longest networks list of a request
MaxConnects == 2     \* connects attempted in one behaviour
MaxRx == 2          \* payloads delivered in one behaviour

(* -------------------------- program constants ------------------------- *)

VpcNibbles == 12    \* VPC identifier: 48 bits
AttNibbles == 4     \* attachment identifier: 16 bits
VpcNameWidth == 9   \* base-62 VPC, zero padded, in a device name
AttNameWidth == 3   \* base-62 attachment, zero padded, in a device name
MainTable == 254    \* RT_TABLE_MAIN: a route that names no table
LoopbackDevice == <<"lo-galactic">>

NoErr == "none"

(* ------------------------------ the codec ----------------------------- *)

HexAlphabet ==
  <<"0","1","2","3","4","5","6","7","8","9","a","b","c","d","e","f">>

Base62Alphabet ==
  <<"0","1","2","3","4","5","6","7","8","9",
    "A","B","C","D","E","F","G","H","I","J","K","L","M",
    "N","O","P","Q","R","S","T","U","V","W","X","Y","Z",
    "a","b","c","d","e","f","g","h","i","j","k","l","m",
    "n","o","p","q","r","s","t","u","v","w","x","y","z">>

IsDigitOf(alphabet, c) == \E i \in 1..Len(alphabet) : alphabet[i] = c

DigitValue(alphabet, c) ==
  (CHOOSE i \in 1..Len(alphabet) : alphabet[i] = c) - 1

ToDigits(alphabet, text) ==
  [i \in 1..Len(text) |-> DigitValue(alphabet, text[i])]

ToText(alphabet, digits) ==
  [i \in 1..Len(digits) |-> alphabet[digits[i] + 1]]

RECURSIVE Zeros(_)
Zeros(n) == IF n <= 0 THEN <<>> ELSE <<0>> \o Zeros(n - 1)

PadLeft(text, width, fill) ==
  [i \in 1..(IF Len(text) < width THEN width - Len(text) ELSE 0) |-> fill]
    \o text

RECURSIVE StripZeros(_)
StripZeros(digits) ==
  IF digits # <<>> /\ Head(digits) = 0 THEN StripZeros(Tail(digits))
  ELSE digits

\* Long division of a digit sequence in base `from` by `by`:
\* <<quotient digits, remainder>>.
RECURSIVE DivDigits(_, _, _, _)
DivDigits(digits, from, by, carry) ==
  IF digits = <<>> THEN <<<<>>, carry>>
  ELSE LET cur == carry * from + Head(digits)
           rest == DivDigits(Tail(digits), from, by, cur % by)
       IN <<<<cur \div by>> \o rest[1], rest[2]>>

\* The digits in base `to` of the unsigned integer whose digits in base
\* `from` are given, most significant first, without leading zeros.
RECURSIVE ConvertBase(_, _, _)
ConvertBase(digits, from, to) ==
  IF StripZeros(digits) = <<>> THEN <<>>
  ELSE LET r == DivDigits(digits, from, to, 0)
       IN ConvertBase(r[1], from, to) \o <<r[2]>>

IsHexText(text) ==
  /\ Len(text) >= 1
  /\ \A i \in 1..Len(text) : IsDigitOf(HexAlphabet, text[i])

\* util.HexToBase62: the hex text as an unsigned integer, written in base 62.
HexToBase62(hex) ==
  IF ~IsHexText(hex) THEN [err |-> "InvalidIdentifier", text |-> <<>>]
  ELSE LET d == ConvertBase(ToDigits(HexAlphabet, hex), 16, 62)
       IN [err |-> NoErr,
           text |-> ToText(Base62Alphabet, IF d = <<>> THEN <<0>> ELSE d)]

\* A hex identifier of at most `width` nibbles, zero padded to `width`.
ParseHexId(text, width) ==
  IF ~IsHexText(text) \/ Len(StripZeros(ToDigits(HexAlphabet, text))) > width
  THEN [err |-> "InvalidIdentifier", nibbles |-> <<>>]
  ELSE [err |-> NoErr,
        nibbles |-> LET d == StripZeros(ToDigits(HexAlphabet, text))
                    IN Zeros(width - Len(d)) \o d]

GroupOf(nibbles, k) ==
  nibbles[4*k - 3] * 4096 + nibbles[4*k - 2] * 256
    + nibbles[4*k - 1] * 16 + nibbles[4*k]

NibblesOf(group) ==
  <<group \div 4096, (group \div 256) % 16, (group \div 16) % 16, group % 16>>

\* util.EncodeSRv6Endpoint: basePrefix || zeros || vpc(48) || attach(16).
\* base is [addr |-> the eight groups of the network address, ones |-> length].
EncodeSRv6Endpoint(base, vpcText, attText) ==
  LET v == ParseHexId(vpcText, VpcNibbles)
      a == ParseHexId(attText, AttNibbles)
  IN IF base.ones > 64 THEN [err |-> "InvalidBasePrefix", ip |-> <<>>]
     ELSE IF v.err # NoErr THEN [err |-> v.err, ip |-> <<>>]
     ELSE IF a.err # NoErr THEN [err |-> a.err, ip |-> <<>>]
     ELSE [err |-> NoErr,
           ip |-> SubSeq(base.addr, 1, 4)
                    \o <<GroupOf(v.nibbles, 1), GroupOf(v.nibbles, 2),
                         GroupOf(v.nibbles, 3), GroupOf(a.nibbles, 1)>>]

\* util.DecodeSRv6Endpoint: the lower 64 bits as 12 and 4 hex nibbles.
DecodeSRv6Endpoint(ip) ==
  [vpc |-> ToText(HexAlphabet,
                  NibblesOf(ip[5]) \o NibblesOf(ip[6]) \o NibblesOf(ip[7])),
   att |-> ToText(HexAlphabet, NibblesOf(ip[8]))]

\* The text of an address is its eight groups; any other text (here the
\* empty one) is no address.
IsIP6(text) == Len(text) = 8

\* util.ParseIP on the text of an address.
ParseIP(text) ==
  IF IsIP6(text) THEN [err |-> NoErr, ip |-> text]
  ELSE [err |-> "InvalidIP", ip |-> <<>>]

(* -------------------------- kernel object names ----------------------- *)

\* G{vpc base 62, 9 wide}{attachment base 62, 3 wide}H / V
GenerateInterfaceNameHost(vpc, att) ==
  <<"G">> \o PadLeft(vpc, VpcNameWidth, "0")
          \o PadLeft(att, AttNameWidth, "0") \o <<"H">>

GenerateInterfaceNameVRF(vpc, att) ==
  <<"G">> \o PadLeft(vpc, VpcNameWidth, "0")
          \o PadLeft(att, AttNameWidth, "0") \o <<"V">>

(* ------------------------------ the state ----------------------------- *)

VARIABLES
  links,      \* the devices: name -> [type, table]; never changed by the agent
  seg6,       \* the kernel was built with seg6 encapsulation support
  routes,     \* <<table, dst>> -> the routes the kernel holds under that key
  neigh,      \* the proxy neighbour entries
  pc,         \* per connection: "idle", "called", "publishing", "done"
  req,        \* per connection: the request being handled
  idx,        \* per connection: networks already handed to Send
  handed,     \* per connection: envelopes handed to Send, in order
  reply,      \* per connection: what the RPC returned
  ingress,    \* per connection: the error of the call's ingress operation and
              \* the routes held for the endpoint before and after it
  prev,       \* per connection: the operation of the call before the current
              \* one, when it had the same arguments and was confirmed
  calls,      \* calls made so far
  rxCount,    \* payloads delivered so far
  clientID,   \* mqtt_clientid
  qos,        \* mqtt_qos
  session,    \* the session asked of the broker: "none", "clean", "persistent"
  run,        \* Remote.Run: "init", "created", "waiting", "failed", "stopped"
  serving,    \* the local gRPC server is serving
  conn,       \* the connection to the broker: "down", "up"
  sub,        \* the subscription to the receive topic on this connection:
              \* "none", "pending", "requested", "granted", "refused",
              \* "timedout"
  attempts,   \* connects attempted so far
  delivered,  \* the payloads the broker delivered, in order
  inbox,      \* payloads received and not yet given to the callback
  busy,       \* the payload the callback is handling
  rxLog,      \* the payloads handled, in order, each with the handler's errors
  rxLines,    \* the lines the receive side logged, in order
  queued,     \* payloads the broker holds for the session, not yet sent
  unhandled,  \* payloads that arrived when no callback was registered
  txLost,     \* publishes on the send topic that failed
  txLog,      \* the lines Send logged
  main,       \* the process: "start", "running", "exited"
  exit,       \* its exit status: "none", "zero", "nonzero", "panic"
  ctx,        \* the context of the tasks: "live", "cancelled"
  serve,      \* Local.Serve: "init", "listening", "broken", "failed", "stopped"
  sock,       \* the socket path: "absent", "stale", "locked", "bound"
  bindable,   \* a socket can be bound at the path once it is free
  srv6cfg,    \* srv6_net
  removed,    \* Serve unlinked a file at the socket path
  codecIn,    \* a base prefix and a pair of identifiers, as texts
  codecEnc,   \* what Encode returned for them
  codecDec,   \* what Decode returned for the encoded address
  codecNames  \* the device names looked up for the decoded pair

kernelVars == <<links, seg6, routes, neigh>>
txVars == <<txLost, txLog>>
localVars == <<pc, req, idx, handed, reply, ingress, prev, calls, txVars>>
queueVars == <<rxLines, queued, unhandled>>
brokerVars == <<clientID, qos, session, run, serving, conn, sub, attempts,
                delivered, inbox, busy, rxLog, queueVars>>
codecVars == <<codecIn, codecEnc, codecDec, codecNames>>
lifeVars == <<main, exit, ctx, serve, sock, bindable, srv6cfg, removed>>
remoteVars == <<rxCount, brokerVars, lifeVars>>
vars == <<links, seg6, routes, neigh,
          pc, req, idx, handed, reply, ingress, prev, calls, rxCount,
          clientID, qos, session, run, serving, conn, sub, attempts,
          delivered, inbox, busy, rxLog, rxLines, queued, unhandled,
          txLost, txLog, main, exit, ctx, serve, sock, bindable, srv6cfg, removed,
          codecIn, codecEnc, codecDec, codecNames>>

(* ------------------------------ the kernel ---------------------------- *)

\* netlink.NewIPNet(ip): the address as a host prefix.
NewIPNet(ip) == [fam |-> 6, ip |-> ip, ones |-> 128]

RoutesAt(rts, key) == IF key \in DOMAIN rts THEN rts[key] ELSE <<>>

SetRoutesAt(rts, key, list) ==
  IF list = <<>>
  THEN [k \in DOMAIN rts \ {key} |-> rts[k]]
  ELSE [k \in DOMAIN rts \cup {key} |-> IF k = key THEN list ELSE rts[k]]

RouteKey(route) == <<route.table, route.dst>>

\* netlink.LinkByName
LinkByName(lnk, name) ==
  IF name \in DOMAIN lnk THEN [err |-> NoErr, index |-> name]
  ELSE [err |-> "DeviceMissing", index |-> <<>>]

\* A mutant of GetVRFIdForVPC: a VRF device that is absent counts as the
\* default VRF.
GetVRFIdForVPCOrDefault(lnk, vpc, att) ==
  LET name == GenerateInterfaceNameVRF(vpc, att)
  IN IF name \in DOMAIN lnk /\ lnk[name].type = "vrf"
     THEN [err |-> NoErr, table |-> lnk[name].table]
     ELSE [err |-> NoErr, table |-> MainTable]

\* vrf.GetVRFIdForVPC: the table of the VRF device named after the pair.
GetVRFIdForVPC(lnk, vpc, att) ==
  LET name == GenerateInterfaceNameVRF(vpc, att)
  IN IF name \in DOMAIN lnk /\ lnk[name].type = "vrf"
     THEN [err |-> NoErr, table |-> lnk[name].table]
     ELSE [err |-> "VRFMissing", table |-> 0]

\* A mutant of RouteReplace: the route is appended (NLM_F_APPEND) beside
\* the ones already held for the destination.
RouteAppend(rts, route, refuse) ==
  IF refuse THEN [err |-> "Netlink", routes |-> rts]
  ELSE [err |-> NoErr,
        routes |-> SetRoutesAt(rts, RouteKey(route),
                               Append(RoutesAt(rts, RouteKey(route)), route))]

\* netlink.RouteReplace (NLM_F_CREATE | NLM_F_REPLACE): the route becomes
\* the one route of its table and destination.  refuse: the kernel rejects
\* the request (not permitted, seg6 not supported).
RouteReplace(rts, route, refuse) ==
  IF refuse THEN [err |-> "Netlink", routes |-> rts]
  ELSE [err |-> NoErr, routes |-> SetRoutesAt(rts, RouteKey(route), <<route>>)]

RECURSIVE RemoveFirst(_, _)
RemoveFirst(list, dev) ==
  IF list = <<>> THEN <<>>
  ELSE IF Head(list).dev = dev THEN Tail(list)
  ELSE <<Head(list)>> \o RemoveFirst(Tail(list), dev)

\* netlink.RouteDel: removes the route of that table, destination and
\* device; the kernel answers ESRCH when it holds none.
RouteDel(rts, route, refuse) ==
  LET held == RoutesAt(rts, RouteKey(route))
  IN IF refuse THEN [err |-> "Netlink", routes |-> rts]
     ELSE IF \A i \in 1..Len(held) : held[i].dev # route.dev
     THEN [err |-> "ESRCH", routes |-> rts]
     ELSE [err |-> NoErr,
           routes |-> SetRoutesAt(rts, RouteKey(route),
                                  RemoveFirst(held, route.dev))]

\* A mutant of NeighAdd: an entry the kernel holds is refused (EEXIST).
NeighAddExclusive(ngh, entry, refuse) ==
  IF refuse THEN [err |-> "Netlink", neigh |-> ngh]
  ELSE IF entry \in ngh THEN [err |-> "EEXIST", neigh |-> ngh]
  ELSE [err |-> NoErr, neigh |-> ngh \cup {entry}]

\* netlink.NeighAdd of a proxy entry: the kernel looks the entry up or
\* creates it (pneigh_lookup with creat), so adding a held entry succeeds.
NeighAdd(ngh, entry, refuse) ==
  IF refuse THEN [err |-> "Netlink", neigh |-> ngh]
  ELSE [err |-> NoErr, neigh |-> ngh \cup {entry}]

\* netlink.NeighDel of a proxy entry: ENOENT when the kernel holds none.
NeighDel(ngh, entry, refuse) ==
  IF refuse THEN [err |-> "Netlink", neigh |-> ngh]
  ELSE IF entry \notin ngh THEN [err |-> "ENOENT", neigh |-> ngh]
  ELSE [err |-> NoErr, neigh |-> ngh \ {entry}]

(* ----------------------- the kernel programmer ------------------------ *)

HostBits(prefix) == IF prefix.fam = 4 THEN 32 ELSE 128

\* util.IsHost: the prefix has no host bits.
IsHost(prefix) == prefix.ones = HostBits(prefix)

\* netlink.ParseIPNet on the CIDR texts the model sends.
ParseIPNet(text) ==
  CASE text = "192.168.2.0/24" ->
         [err |-> NoErr, net |-> [fam |-> 4, ip |-> <<192, 168, 2, 0>>, ones |-> 24]]
    [] text = "192.168.2.5/32" ->
         [err |-> NoErr, net |-> [fam |-> 4, ip |-> <<192, 168, 2, 5>>, ones |-> 32]]
    [] text = "fd00::5/128" ->
         [err |-> NoErr,
          net |-> [fam |-> 6, ip |-> <<64768, 0, 0, 0, 0, 0, 0, 5>>, ones |-> 128]]
    [] OTHER -> [err |-> "InvalidPrefix", net |-> [fam |-> 0, ip |-> <<>>, ones |-> 0]]

\* util.ParseSegments: every text parsed, in order; the first failure ends it.
ParseSegments(texts) ==
  IF \E i \in 1..Len(texts) : ParseIP(texts[i]).err # NoErr
  THEN [err |-> "InvalidSegments", segments |-> <<>>]
  ELSE [err |-> NoErr, segments |-> [i \in 1..Len(texts) |-> ParseIP(texts[i]).ip]]

\* A mutant of IngressRoute: the decapsulated packet is looked up in the
\* main table instead of the VRF's.
IngressRouteMainTable(ipnet, dev, table) ==
  [table |-> MainTable, dst |-> ipnet, dev |-> dev,
   encap |-> [type |-> "seg6local", action |-> "End.DT46", vrftable |-> MainTable]]

IngressRoute(ipnet, dev, table) ==
  [table |-> MainTable, dst |-> ipnet, dev |-> dev,
   encap |-> [type |-> "seg6local", action |-> "End.DT46", vrftable |-> table]]

\* A mutant of IngressAdd: the route is written before the VRF is looked up.
IngressAddEarly(lnk, rts, ipnet, vpc, att, refuse) ==
  LET link == LinkByName(lnk, GenerateInterfaceNameHost(vpc, att))
      vrf == GetVRFIdForVPC(lnk, vpc, att)
      put == RouteReplace(rts, IngressRoute(ipnet, link.index, vrf.table), refuse)
  IN IF link.err # NoErr THEN [err |-> link.err, routes |-> rts]
     ELSE IF vrf.err # NoErr THEN [err |-> vrf.err, routes |-> put.routes]
     ELSE put

\* routeingress.Add
IngressAdd(lnk, rts, ipnet, vpc, att, refuse) ==
  LET link == LinkByName(lnk, GenerateInterfaceNameHost(vpc, att))
      vrf == GetVRFIdForVPC(lnk, vpc, att)
  IN IF link.err # NoErr THEN [err |-> link.err, routes |-> rts]
     ELSE IF vrf.err # NoErr THEN [err |-> vrf.err, routes |-> rts]
     ELSE RouteReplace(rts, IngressRoute(ipnet, link.index, vrf.table), refuse)

\* A mutant of IngressDelete: the route is looked for in the VRF table.
IngressDeleteInVrfTable(lnk, rts, ipnet, vpc, att, refuse) ==
  LET link == LinkByName(lnk, GenerateInterfaceNameHost(vpc, att))
      vrf == GetVRFIdForVPC(lnk, vpc, att)
  IN IF link.err # NoErr THEN [err |-> link.err, routes |-> rts]
     ELSE RouteDel(rts, [table |-> vrf.table, dst |-> ipnet, dev |-> link.index,
                         encap |-> [type |-> "seg6local"]], refuse)

\* routeingress.Delete
IngressDelete(lnk, rts, ipnet, vpc, att, refuse) ==
  LET link == LinkByName(lnk, GenerateInterfaceNameHost(vpc, att))
  IN IF link.err # NoErr THEN [err |-> link.err, routes |-> rts]
     ELSE RouteDel(rts, [table |-> MainTable, dst |-> ipnet, dev |-> link.index,
                         encap |-> [type |-> "seg6local"]], refuse)

\* The names the srv6 package derives from an endpoint: decode, then base 62.
PairOf(ip) ==
  LET d == DecodeSRv6Endpoint(ip)
      v == HexToBase62(d.vpc)
      a == HexToBase62(d.att)
  IN [err |-> IF v.err # NoErr THEN v.err ELSE a.err, vpc |-> v.text, att |-> a.text]

\* srv6.RouteIngressAdd
RouteIngressAdd(lnk, rts, ipStr, refuse) ==
  LET p == ParseIP(ipStr)
      pair == PairOf(p.ip)
  IN IF p.err # NoErr THEN [err |-> p.err, routes |-> rts]
     ELSE IF pair.err # NoErr THEN [err |-> pair.err, routes |-> rts]
     ELSE IngressAdd(lnk, rts, NewIPNet(p.ip), pair.vpc, pair.att, refuse)

\* srv6.RouteIngressDel
RouteIngressDel(lnk, rts, ipStr, refuse) ==
  LET p == ParseIP(ipStr)
      pair == PairOf(p.ip)
  IN IF p.err # NoErr THEN [err |-> p.err, routes |-> rts]
     ELSE IF pair.err # NoErr THEN [err |-> pair.err, routes |-> rts]
     ELSE IngressDelete(lnk, rts, NewIPNet(p.ip), pair.vpc, pair.att, refuse)

ProxyEntry(dev, ip) ==
  [dev |-> dev, ip |-> ip, state |-> "PERMANENT", flags |-> "PROXY"]

\* neighborproxy.Add
NeighborProxyAdd(lnk, ngh, ipnet, vpc, att, refuse) ==
  LET link == LinkByName(lnk, GenerateInterfaceNameHost(vpc, att))
  IN IF link.err # NoErr THEN [err |-> link.err, neigh |-> ngh]
     ELSE NeighAdd(ngh, ProxyEntry(link.index, ipnet.ip), refuse)

\* neighborproxy.Delete
NeighborProxyDelete(lnk, ngh, ipnet, vpc, att, refuse) ==
  LET link == LinkByName(lnk, GenerateInterfaceNameHost(vpc, att))
  IN IF link.err # NoErr THEN [err |-> link.err, neigh |-> ngh]
     ELSE NeighDel(ngh, ProxyEntry(link.index, ipnet.ip), refuse)

EgressRoute(prefix, dev, table, segments) ==
  [table |-> table, dst |-> prefix, dev |-> dev,
   encap |-> [type |-> "seg6", mode |-> "encap", segments |-> segments]]

\* A mutant of EgressAdd: the route names no table and lands in the main one.
EgressAddNoTable(lnk, rts, vpc, att, prefix, segments, refuse) ==
  LET link == LinkByName(lnk, LoopbackDevice)
      vrf == GetVRFIdForVPC(lnk, vpc, att)
  IN IF link.err # NoErr THEN [err |-> link.err, routes |-> rts]
     ELSE IF vrf.err # NoErr THEN [err |-> vrf.err, routes |-> rts]
     ELSE RouteReplace(rts, EgressRoute(prefix, link.index, MainTable, segments),
                       refuse)

\* routeegress.Add
EgressAdd(lnk, rts, vpc, att, prefix, segments, refuse) ==
  LET link == LinkByName(lnk, LoopbackDevice)
      vrf == GetVRFIdForVPC(lnk, vpc, att)
  IN IF link.err # NoErr THEN [err |-> link.err, routes |-> rts]
     ELSE IF vrf.err # NoErr THEN [err |-> vrf.err, routes |-> rts]
     ELSE RouteReplace(rts, EgressRoute(prefix, link.index, vrf.table, segments),
                       refuse)

\* A mutant of EgressDelete: only the route with the segments of the
\* message is removed.
EgressDeleteBySegments(lnk, rts, vpc, att, prefix, segments, refuse) ==
  LET link == LinkByName(lnk, LoopbackDevice)
      vrf == GetVRFIdForVPC(lnk, vpc, att)
      key == <<vrf.table, prefix>>
  IN IF link.err # NoErr THEN [err |-> link.err, routes |-> rts]
     ELSE IF vrf.err # NoErr THEN [err |-> vrf.err, routes |-> rts]
     ELSE IF \A i \in 1..Len(RoutesAt(rts, key)) :
                RoutesAt(rts, key)[i].encap.segments # segments
     THEN [err |-> "ESRCH", routes |-> rts]
     ELSE RouteDel(rts, [table |-> vrf.table, dst |-> prefix, dev |-> link.index],
                   refuse)

\* routeegress.Delete
EgressDelete(lnk, rts, vpc, att, prefix, segments, refuse) ==
  LET link == LinkByName(lnk, LoopbackDevice)
      vrf == GetVRFIdForVPC(lnk, vpc, att)
  IN IF link.err # NoErr THEN [err |-> link.err, routes |-> rts]
     ELSE IF vrf.err # NoErr THEN [err |-> vrf.err, routes |-> rts]
     ELSE RouteDel(rts, [table |-> vrf.table, dst |-> prefix, dev |-> link.index],
                   refuse)

ErrList(err) == IF err = NoErr THEN <<>> ELSE <<err>>

Unchanged(errs, rts, ngh) == [errs |-> errs, routes |-> rts, neigh |-> ngh]

\* A mutant of RouteEgressAdd: the proxy neighbour is added for every prefix.
RouteEgressAddAlwaysProxy(lnk, rts, ngh, prefixStr, srcStr, segmentsStr, refuseNeigh, refuseRoute) ==
  LET prefix == ParseIPNet(prefixStr)
      src == ParseIP(srcStr)
      segs == ParseSegments(segmentsStr)
      pair == PairOf(src.ip)
      n == NeighborProxyAdd(lnk, ngh, prefix.net, pair.vpc, pair.att, refuseNeigh)
      r == EgressAdd(lnk, rts, pair.vpc, pair.att, prefix.net, segs.segments,
                     refuseRoute)
  IN IF prefix.err # NoErr THEN Unchanged(<<prefix.err>>, rts, ngh)
     ELSE IF src.err # NoErr THEN Unchanged(<<src.err>>, rts, ngh)
     ELSE IF segs.err # NoErr THEN Unchanged(<<segs.err>>, rts, ngh)
     ELSE IF pair.err # NoErr THEN Unchanged(<<pair.err>>, rts, ngh)
     ELSE [errs |-> ErrList(n.err) \o ErrList(r.err),
           routes |-> r.routes, neigh |-> n.neigh]

\* srv6.RouteEgressAdd: the proxy neighbour (host prefixes only) and the
\* route are both attempted; the errors of both are joined.
RouteEgressAdd(lnk, rts, ngh, prefixStr, srcStr, segmentsStr, refuseNeigh, refuseRoute) ==
  LET prefix == ParseIPNet(prefixStr)
      src == ParseIP(srcStr)
      segs == ParseSegments(segmentsStr)
      pair == PairOf(src.ip)
      n == IF IsHost(prefix.net)
           THEN NeighborProxyAdd(lnk, ngh, prefix.net, pair.vpc, pair.att,
                                 refuseNeigh)
           ELSE [err |-> NoErr, neigh |-> ngh]
      r == EgressAdd(lnk, rts, pair.vpc, pair.att, prefix.net, segs.segments,
                     refuseRoute)
  IN IF prefix.err # NoErr THEN Unchanged(<<prefix.err>>, rts, ngh)
     ELSE IF src.err # NoErr THEN Unchanged(<<src.err>>, rts, ngh)
     ELSE IF segs.err # NoErr THEN Unchanged(<<segs.err>>, rts, ngh)
     ELSE IF pair.err # NoErr THEN Unchanged(<<pair.err>>, rts, ngh)
     ELSE [errs |-> ErrList(n.err) \o ErrList(r.err),
           routes |-> r.routes, neigh |-> n.neigh]

\* A mutant of RouteEgressDel: a failed neighbour delete ends the operation.
RouteEgressDelShortCircuit(lnk, rts, ngh, prefixStr, srcStr, segmentsStr, refuseNeigh, refuseRoute) ==
  LET prefix == ParseIPNet(prefixStr)
      src == ParseIP(srcStr)
      segs == ParseSegments(segmentsStr)
      pair == PairOf(src.ip)
      n == IF IsHost(prefix.net)
           THEN NeighborProxyDelete(lnk, ngh, prefix.net, pair.vpc, pair.att,
                                    refuseNeigh)
           ELSE [err |-> NoErr, neigh |-> ngh]
      r == EgressDelete(lnk, rts, pair.vpc, pair.att, prefix.net, segs.segments,
                        refuseRoute)
  IN IF prefix.err # NoErr THEN Unchanged(<<prefix.err>>, rts, ngh)
     ELSE IF src.err # NoErr THEN Unchanged(<<src.err>>, rts, ngh)
     ELSE IF segs.err # NoErr THEN Unchanged(<<segs.err>>, rts, ngh)
     ELSE IF pair.err # NoErr THEN Unchanged(<<pair.err>>, rts, ngh)
     ELSE IF n.err # NoErr THEN Unchanged(<<n.err>>, rts, ngh)
     ELSE [errs |-> ErrList(r.err), routes |-> r.routes, neigh |-> n.neigh]

\* A mutant of RouteEgressDel: the proxy neighbour is left in place.
RouteEgressDelKeepingProxy(lnk, rts, ngh, prefixStr, srcStr, segmentsStr, refuseNeigh, refuseRoute) ==
  LET prefix == ParseIPNet(prefixStr)
      src == ParseIP(srcStr)
      segs == ParseSegments(segmentsStr)
      pair == PairOf(src.ip)
      r == EgressDelete(lnk, rts, pair.vpc, pair.att, prefix.net, segs.segments,
                        refuseRoute)
  IN IF prefix.err # NoErr THEN Unchanged(<<prefix.err>>, rts, ngh)
     ELSE IF src.err # NoErr THEN Unchanged(<<src.err>>, rts, ngh)
     ELSE IF segs.err # NoErr THEN Unchanged(<<segs.err>>, rts, ngh)
     ELSE IF pair.err # NoErr THEN Unchanged(<<pair.err>>, rts, ngh)
     ELSE [errs |-> ErrList(r.err), routes |-> r.routes, neigh |-> ngh]

\* srv6.RouteEgressDel
RouteEgressDel(lnk, rts, ngh, prefixStr, srcStr, segmentsStr, refuseNeigh, refuseRoute) ==
  LET prefix == ParseIPNet(prefixStr)
      src == ParseIP(srcStr)
      segs == ParseSegments(segmentsStr)
      pair == PairOf(src.ip)
      n == IF IsHost(prefix.net)
           THEN NeighborProxyDelete(lnk, ngh, prefix.net, pair.vpc, pair.att,
                                    refuseNeigh)
           ELSE [err |-> NoErr, neigh |-> ngh]
      r == EgressDelete(lnk, rts, pair.vpc, pair.att, prefix.net, segs.segments,
                        refuseRoute)
  IN IF prefix.err # NoErr THEN Unchanged(<<prefix.err>>, rts, ngh)
     ELSE IF src.err # NoErr THEN Unchanged(<<src.err>>, rts, ngh)
     ELSE IF segs.err # NoErr THEN Unchanged(<<segs.err>>, rts, ngh)
     ELSE IF pair.err # NoErr THEN Unchanged(<<pair.err>>, rts, ngh)
     ELSE [errs |-> ErrList(n.err) \o ErrList(r.err),
           routes |-> r.routes, neigh |-> n.neigh]

(* --------------------------- configuration ---------------------------- *)

\* srv6_net, by default fc00::/56
Srv6Net == [addr |-> <<64512, 0, 0, 0, 0, 0, 0, 0>>, ones |-> 56]

(* ------------------------ what the model sends ------------------------ *)

\* Two client connections, whose handlers run concurrently.
Conns == {"c1", "c2"}

\* Identifiers of requests: two valid ones and one that is no hex text.
VpcTexts == {<<"1">>, <<"2">>, <<"z">>}
AttTexts == {<<"1">>}

SeqsUpTo(S, n) == UNION {[1..k -> S] : k \in 0..n}

Injective(seq) == \A i, j \in 1..Len(seq) : seq[i] = seq[j] => i = j

\* The networks of a request are passed on as they are, never parsed.
NetworkLists ==
  {l \in SeqsUpTo({"10.1.1.0/24", "10.1.2.0/24"}, MaxNets) : Injective(l)}

Requests ==
  [op : {"Register", "Deregister"}, vpc : VpcTexts, att : AttTexts,
   nets : NetworkLists]

NoReq == [op |-> "none", vpc |-> <<>>, att |-> <<>>, nets |-> <<>>]
NoReply == [msg |-> "pending", err |-> NoErr]
NoCall == "none"
NoIngress == [err |-> "pending", before |-> <<>>, held |-> <<>>]

Endpoint(vpcText, attText) == EncodeSRv6Endpoint(Srv6Net, vpcText, attText).ip

\* The devices a provisioned attachment has: created by the collaborator,
\* named after the attachment's identifiers.
HostDev(vpcText, attText) == GenerateInterfaceNameHost(vpcText, attText)
VrfDev(vpcText, attText) == GenerateInterfaceNameVRF(vpcText, attText)

AllLinks ==
  (HostDev(<<"1">>, <<"1">>) :> [type |-> "veth", table |-> 0])
  @@ (VrfDev(<<"1">>, <<"1">>) :> [type |-> "vrf", table |-> 100])
  @@ (HostDev(<<"2">>, <<"1">>) :> [type |-> "veth", table |-> 0])
  @@ (VrfDev(<<"2">>, <<"1">>) :> [type |-> "vrf", table |-> 101])
  @@ (LoopbackDevice :> [type |-> "dummy", table |-> 0])

Without(lnk, name) == [n \in DOMAIN lnk \ {name} |-> lnk[n]]

\* Every device present, or some of them missing.
LinkConfigs ==
  {AllLinks,
   Without(Without(AllLinks, VrfDev(<<"2">>, <<"1">>)), LoopbackDevice),
   Without(AllLinks, HostDev(<<"2">>, <<"1">>))}

EmptyRoutes == [k \in {} |-> <<>>]

\* An ingress route an earlier run left behind, when the VRF of the
\* attachment had another table.
StaleRoutes ==
  LET stale == IngressRoute(NewIPNet(Endpoint(<<"1">>, <<"1">>)),
                            HostDev(<<"1">>, <<"1">>), 99)
  IN SetRoutesAt(EmptyRoutes, RouteKey(stale), <<stale>>)

(* -------------------------- the local service ------------------------- *)

Envelope(kind, network, endpoint) ==
  [kind |-> kind, network |-> network, srv6_endpoint |-> endpoint]

\* Remote.Send: the payload is handed to the client's Publish, whose token
\* is waited for and whose error is not looked at: nothing is returned and
\* nothing is logged, whether the publish succeeded or not.
Send(c, envelope, published) ==
  /\ handed' = [handed EXCEPT ![c] = Append(@, envelope)]
  /\ txLost' = IF published THEN txLost ELSE txLost + 1
  /\ txLog' = txLog

\* A client sends a request on connection c.
Call(c, r) ==
  /\ serving
  /\ pc[c] \in {"idle", "done"}
  /\ calls < MaxCalls
  /\ calls' = calls + 1
  /\ prev' = [prev EXCEPT ![c] =
                IF /\ pc[c] = "done" /\ reply[c].err = NoErr
                   /\ <<req[c].vpc, req[c].att, req[c].nets>> = <<r.vpc, r.att, r.nets>>
                THEN req[c].op ELSE NoCall]
  /\ pc' = [pc EXCEPT ![c] = "called"]
  /\ req' = [req EXCEPT ![c] = r]
  /\ idx' = [idx EXCEPT ![c] = 0]
  /\ handed' = [handed EXCEPT ![c] = <<>>]
  /\ reply' = [reply EXCEPT ![c] = NoReply]
  /\ ingress' = [ingress EXCEPT ![c] = NoIngress]
  /\ UNCHANGED <<codecVars, kernelVars, txVars, remoteVars>>

\* Local.Register / Local.Deregister returning the handler's error.
Fail(c, err) ==
  /\ pc' = [pc EXCEPT ![c] = "done"]
  /\ reply' = [reply EXCEPT ![c] = [msg |-> "nil", err |-> err]]

IngressKey(ip) == <<MainTable, NewIPNet(ip)>>

\* RegisterHandler / DeregisterHandler up to the loop over the networks:
\* the endpoint is encoded and the ingress route installed or removed.
HandlerKernel(lnk, rts, r, refuse) ==
  LET e == EncodeSRv6Endpoint(Srv6Net, r.vpc, r.att)
  IN IF e.err # NoErr THEN [err |-> e.err, routes |-> rts]
     ELSE IF r.op = "Register" THEN RouteIngressAdd(lnk, rts, e.ip, refuse)
     ELSE RouteIngressDel(lnk, rts, e.ip, refuse)

\* A mutant of HandlerIngress: the error of the ingress operation is dropped.
HandlerIngressIgnoringError(c) ==
  /\ pc[c] = "called"
  /\ LET e == EncodeSRv6Endpoint(Srv6Net, req[c].vpc, req[c].att)
         k == HandlerKernel(links, routes, req[c], ~seg6)
     IN /\ routes' = k.routes
        /\ IF e.err # NoErr
           THEN Fail(c, e.err) /\ UNCHANGED ingress
           ELSE /\ ingress' = [ingress EXCEPT ![c] =
                                 [err |-> k.err,
                                  before |-> RoutesAt(routes, IngressKey(e.ip)),
                                  held |-> RoutesAt(k.routes, IngressKey(e.ip))]]
                /\ pc' = [pc EXCEPT ![c] = "publishing"]
                /\ UNCHANGED reply
  /\ UNCHANGED <<codecVars, links, seg6, neigh, req, idx, handed, prev, calls, txVars, remoteVars>>

\* The handler runs up to its ingress operation; an error ends the call.
HandlerIngress(c) ==
  /\ pc[c] = "called"
  /\ LET e == EncodeSRv6Endpoint(Srv6Net, req[c].vpc, req[c].att)
         k == HandlerKernel(links, routes, req[c], ~seg6)
     IN /\ routes' = k.routes
        /\ IF e.err # NoErr
           THEN Fail(c, e.err) /\ UNCHANGED ingress
           ELSE /\ ingress' = [ingress EXCEPT ![c] =
                                 [err |-> k.err,
                                  before |-> RoutesAt(routes, IngressKey(e.ip)),
                                  held |-> RoutesAt(k.routes, IngressKey(e.ip))]]
                /\ IF k.err # NoErr THEN Fail(c, k.err)
                   ELSE /\ pc' = [pc EXCEPT ![c] = "publishing"]
                        /\ UNCHANGED reply
  /\ UNCHANGED <<codecVars, links, seg6, neigh, req, idx, handed, prev, calls, txVars, remoteVars>>

\* A mutant of HandlerPublish: the networks are taken from the end of the list.
HandlerPublishBackwards(c, marshalFails, published) ==
  /\ pc[c] = "publishing"
  /\ idx[c] < Len(req[c].nets)
  /\ marshalFails \/ run # "init"
  /\ IF marshalFails
     THEN Fail(c, "Marshal") /\ UNCHANGED <<idx, handed, txVars>>
     ELSE /\ Send(c, Envelope(req[c].op, req[c].nets[Len(req[c].nets) - idx[c]],
                              Endpoint(req[c].vpc, req[c].att)), published)
          /\ idx' = [idx EXCEPT ![c] = @ + 1]
          /\ UNCHANGED <<pc, reply>>
  /\ UNCHANGED <<codecVars, kernelVars, req, ingress, prev, calls, remoteVars>>

\* One turn of the loop over the networks: Marshal, then Send.
HandlerPublish(c, marshalFails, published) ==
  /\ pc[c] = "publishing"
  /\ idx[c] < Len(req[c].nets)
  /\ marshalFails \/ run # "init"
  /\ IF marshalFails
     THEN Fail(c, "Marshal") /\ UNCHANGED <<idx, handed, txVars>>
     ELSE /\ Send(c, Envelope(req[c].op, req[c].nets[idx[c] + 1],
                              Endpoint(req[c].vpc, req[c].att)), published)
          /\ idx' = [idx EXCEPT ![c] = @ + 1]
          /\ UNCHANGED <<pc, reply>>
  /\ UNCHANGED <<codecVars, kernelVars, req, ingress, prev, calls, remoteVars>>

\* A turn of the loop while Run has not yet made the client: Send calls
\* Publish on the nil client, the handler's goroutine panics and the
\* process ends.
SendPanics(c) ==
  /\ pc[c] = "publishing"
  /\ idx[c] < Len(req[c].nets)
  /\ run = "init"
  /\ main' = "exited"
  /\ exit' = "panic"
  /\ serving' = FALSE
  /\ UNCHANGED <<codecVars, kernelVars, localVars, rxCount, clientID, qos, session, run,
                 conn, sub, attempts, delivered, inbox, busy, rxLog,
                 queueVars, ctx, serve, sock, bindable, srv6cfg, removed>>

\* The handler returns nil and the reply is written.
HandlerReturn(c) ==
  /\ pc[c] = "publishing"
  /\ idx[c] = Len(req[c].nets)
  /\ pc' = [pc EXCEPT ![c] = "done"]
  /\ reply' = [reply EXCEPT ![c] = [msg |-> "confirmed", err |-> NoErr]]
  /\ UNCHANGED <<codecVars, kernelVars, req, idx, handed, ingress, prev, calls, txVars, remoteVars>>

(* -------------------------- the remote client ------------------------- *)

\* fc00:0:3:: and fc00:0:2::
Seg3 == <<64512, 0, 3, 0, 0, 0, 0, 0>>
Seg2 == <<64512, 0, 2, 0, 0, 0, 0, 0>>

\* One segment, two in either order, the same segment twice.
SegmentLists == {<<Seg3>>, <<Seg3, Seg2>>, <<Seg2, Seg3>>, <<Seg3, Seg3>>}

RouteEnvelopes ==
  [kind : {"Route"},
   network : {"192.168.2.0/24", "192.168.2.5/32", "fd00::5/128"},
   srv6_endpoint : {Endpoint(<<"1">>, <<"1">>), Endpoint(<<"2">>, <<"1">>)},
   srv6_segments : SegmentLists,
   status : {"ADD", "DELETE"}]

BadRouteEnvelopes ==
  {[kind |-> "Route", network |-> "192.168.2.0", srv6_endpoint |-> Endpoint(<<"1">>, <<"1">>),
    srv6_segments |-> <<Seg3>>, status |-> "ADD"],
   [kind |-> "Route", network |-> "192.168.2.0/24", srv6_endpoint |-> <<>>,
    srv6_segments |-> <<Seg3>>, status |-> "ADD"],
   [kind |-> "Route", network |-> "192.168.2.0/24", srv6_endpoint |-> Endpoint(<<"1">>, <<"1">>),
    srv6_segments |-> << <<>> >>, status |-> "DELETE"]}

OtherEnvelopes ==
  {[kind |-> "Register", network |-> "192.168.2.0/24",
    srv6_endpoint |-> Endpoint(<<"1">>, <<"1">>), srv6_segments |-> <<>>,
    status |-> "ADD"],
   [kind |-> "", network |-> "", srv6_endpoint |-> <<>>, srv6_segments |-> <<>>,
    status |-> "ADD"]}

\* A payload is the wire form of an envelope, or bytes that are none.
Payloads ==
  [wire : {"proto"}, env : RouteEnvelopes \cup BadRouteEnvelopes \cup OtherEnvelopes]
    \cup {[wire |-> "text", env |-> [kind |-> "", network |-> "test message",
            srv6_endpoint |-> <<>>, srv6_segments |-> <<>>, status |-> "ADD"]]}

NoPayload == [wire |-> "none"]

\* ReceiveHandler: Unmarshal, then the kernel programmer for a Route.
ReceiveHandler(lnk, rts, ngh, payload, refuse) ==
  LET env == payload.env
  IN IF payload.wire # "proto" THEN Unchanged(<<"InvalidWire">>, rts, ngh)
     ELSE IF env.kind = "Route" /\ env.status = "ADD"
     THEN RouteEgressAdd(lnk, rts, ngh, env.network, env.srv6_endpoint,
                         env.srv6_segments, FALSE, refuse)
     ELSE IF env.kind = "Route" /\ env.status = "DELETE"
     THEN RouteEgressDel(lnk, rts, ngh, env.network, env.srv6_endpoint,
                         env.srv6_segments, FALSE, FALSE)
     ELSE Unchanged(<<>>, rts, ngh)

\* The broker delivers a payload on the receive topic; the subscription
\* callback runs the handler and logs its error.
Deliver(payload) ==
  /\ rxCount < MaxRx
  /\ rxCount' = rxCount + 1
  /\ LET h == ReceiveHandler(links, routes, neigh, payload, ~seg6)
     IN /\ routes' = h.routes
        /\ neigh' = h.neigh
  /\ UNCHANGED <<codecVars, links, seg6, localVars, brokerVars, lifeVars>>

(* -------------------- the remote client's connection ------------------ *)

\* The client identifiers and the QoS levels of the configuration.
ClientIDs == {"", "agent-1"}
QoSLevels == {0, 1, 2}

\* A mutant of CleanSession: clean only without identifier at QoS 0.
CleanSessionBoth(id, q) == id = "" /\ q = 0

\* opts.SetCleanSession(r.ClientID == "" || r.QoS == 0)
CleanSession(id, q) == id = "" \/ q = 0

SessionOf(id, q) == IF CleanSession(id, q) THEN "clean" ELSE "persistent"

\* The payloads the broker delivers in this part of the model: two Route
\* ADDs for one destination, one for a host prefix, a DELETE, an envelope
\* of another variant, and bytes that are no envelope.
RoutePayload(network, segments, status) ==
  [wire |-> "proto",
   env |-> [kind |-> "Route", network |-> network,
            srv6_endpoint |-> Endpoint(<<"1">>, <<"1">>),
            srv6_segments |-> segments, status |-> status]]

TextPayload ==
  [wire |-> "text", env |-> [kind |-> "", network |-> "test message",
                             srv6_endpoint |-> <<>>, srv6_segments |-> <<>>,
                             status |-> "ADD"]]

\* An envelope of the variant the agent itself publishes, as the broker
\* hands it over when it is published on the receive topic.
RegisterPayload ==
  [wire |-> "proto",
   env |-> [kind |-> "Register", network |-> "10.1.1.0/24",
            srv6_endpoint |-> Endpoint(<<"1">>, <<"1">>),
            srv6_segments |-> <<>>, status |-> "ADD"]]

BrokerPayloads ==
  {RoutePayload("192.168.2.0/24", <<Seg3>>, "ADD"),
   RoutePayload("192.168.2.0/24", <<Seg2, Seg3>>, "ADD"),
   RoutePayload("192.168.2.5/32", <<Seg3>>, "ADD"),
   RoutePayload("192.168.2.0/24", <<Seg3>>, "DELETE"),
   RegisterPayload,
   TextPayload}

\* The configurations the client is run with: the default, an identifier
\* at QoS 0, an identifier at QoS 1.
BrokerConfigs == {<<"", 1>>, <<"agent-1", 0>>, <<"agent-1", 1>>}

\* What the broker holds for the session when the agent starts: with a
\* persistent session, nothing or a Route published while the agent was down.
QueuedAtStart(id, q) ==
  IF SessionOf(id, q) = "persistent"
  THEN {<<>>, <<RoutePayload("192.168.2.0/24", <<Seg3>>, "ADD")>>}
  ELSE {<<>>}

\* The lines written to the log for one payload: ReceiveHandler logs a
\* Route, the subscription callback logs the handler's error.
ReceiveLines(payload, errs) ==
  (IF payload.wire = "proto" /\ payload.env.kind = "Route"
   THEN <<"ROUTE">> ELSE <<>>)
    \o (IF errs # <<>> THEN <<"MQTT ReceiveHandler failed">> ELSE <<>>)

\* The library starts the OnConnect callback once the connection is up.
OnConnect == sub' = "pending"

\* The OnConnect callback calls Subscribe, which registers the callback
\* for the receive topic and sends the request; its token is waited for.
Subscribe ==
  /\ conn = "up"
  /\ sub = "pending"
  /\ sub' = "requested"
  /\ UNCHANGED <<codecVars, kernelVars, localVars, rxCount, clientID, qos, session, run,
                 serving, conn, attempts, delivered, inbox, busy, rxLog,
                 queueVars, lifeVars>>

\* Run up to mqtt.NewClient: the options are set, the client is made and
\* stored in the Remote.
RunCreate ==
  /\ main = "running"
  /\ run = "init"
  /\ run' = "created"
  /\ UNCHANGED <<codecVars, kernelVars, localVars, rxCount, clientID, qos, session,
                 serving, conn, sub, attempts, delivered, inbox, busy, rxLog,
                 queueVars, lifeVars>>

\* Run at the first Connect: the client connects; a failed connect makes
\* Run return the error.
RunConnect(ok) ==
  /\ main = "running"
  /\ run = "created"
  /\ attempts < MaxConnects
  /\ attempts' = attempts + 1
  /\ session' = SessionOf(clientID, qos)
  /\ IF ok
     THEN /\ conn' = "up"
          /\ run' = "waiting"
          /\ OnConnect
     ELSE /\ run' = "failed"
          /\ UNCHANGED <<conn, sub>>
  /\ UNCHANGED <<codecVars, kernelVars, localVars, rxCount, clientID, qos, serving,
                 delivered, inbox, busy, rxLog, queueVars, lifeVars>>

\* The errgroup of main: the first task to return an error cancels the
\* context of both.
Shutdown ==
  /\ main = "running"
  /\ run = "failed" \/ serve = "failed"
  /\ ctx = "live"
  /\ ctx' = "cancelled"
  /\ UNCHANGED <<codecVars, kernelVars, localVars, rxCount, brokerVars,
                 main, exit, serve, sock, bindable, srv6cfg, removed>>

\* The token of Subscribe completes: granted, refused, or not within the
\* five seconds OnConnect waits; a grant may still arrive after those.
\* OnConnect logs a failure and returns.
SubAck(outcome) ==
  /\ conn = "up"
  /\ \/ sub = "requested"
     \/ sub = "timedout" /\ outcome = "granted"
  /\ sub' = outcome
  /\ UNCHANGED <<codecVars, kernelVars, localVars, rxCount, clientID, qos, session, run,
                 serving, conn, attempts, delivered, inbox, busy, rxLog,
                 queueVars, lifeVars>>

\* The connection to the broker is lost.
ConnectionLost ==
  /\ run = "waiting"
  /\ conn = "up"
  /\ conn' = "down"
  /\ sub' = "none"
  /\ UNCHANGED <<codecVars, kernelVars, localVars, rxCount, clientID, qos, session, run,
                 serving, attempts, delivered, inbox, busy, rxLog,
                 queueVars, lifeVars>>

\* A mutant of Reconnect: the connection comes back without OnConnect.
ReconnectSilently(ok) ==
  /\ run = "waiting"
  /\ conn = "down"
  /\ attempts < MaxConnects
  /\ attempts' = attempts + 1
  /\ IF ok THEN conn' = "up" ELSE UNCHANGED conn
  /\ UNCHANGED <<codecVars, kernelVars, localVars, rxCount, clientID, qos, session, run,
                 serving, sub, delivered, inbox, busy, rxLog,
                 queueVars, lifeVars>>

\* The client library reconnects by itself (its default); OnConnect is
\* called on the new connection as on the first.
Reconnect(ok) ==
  /\ run = "waiting"
  /\ conn = "down"
  /\ attempts < MaxConnects
  /\ attempts' = attempts + 1
  /\ IF ok
     THEN conn' = "up" /\ OnConnect
     ELSE UNCHANGED <<conn, sub>>
  /\ UNCHANGED <<codecVars, kernelVars, localVars, rxCount, clientID, qos, session, run,
                 serving, delivered, inbox, busy, rxLog, queueVars, lifeVars>>

\* The broker delivers a payload on the receive topic.
BrokerDeliver(payload) ==
  /\ conn = "up"
  /\ sub = "granted"
  /\ rxCount < MaxRx
  /\ rxCount' = rxCount + 1
  /\ delivered' = Append(delivered, payload)
  /\ inbox' = Append(inbox, payload)
  /\ UNCHANGED <<codecVars, kernelVars, localVars, clientID, qos, session, run, serving,
                 conn, sub, attempts, busy, rxLog, queueVars, lifeVars>>

\* The broker sends what it holds for a persistent session as soon as the
\* connection is up. The client has a callback for the topic only once
\* OnConnect has called Subscribe, and Run sets no default handler: a
\* payload that arrives before is not given to any callback.
BrokerRedeliver ==
  /\ conn = "up"
  /\ session = "persistent"
  /\ queued # <<>>
  /\ queued' = Tail(queued)
  /\ IF sub = "pending"
     THEN /\ unhandled' = Append(unhandled, Head(queued))
          /\ UNCHANGED <<delivered, inbox>>
     ELSE /\ delivered' = Append(delivered, Head(queued))
          /\ inbox' = Append(inbox, Head(queued))
          /\ UNCHANGED unhandled
  /\ UNCHANGED <<codecVars, kernelVars, localVars, rxCount, clientID, qos, session, run,
                 serving, conn, sub, attempts, busy, rxLog, rxLines, lifeVars>>

\* A mutant of HandleStart: the newest payload is taken.
HandleStartNewest ==
  /\ busy = NoPayload
  /\ inbox # <<>>
  /\ busy' = inbox[Len(inbox)]
  /\ inbox' = SubSeq(inbox, 1, Len(inbox) - 1)
  /\ UNCHANGED <<codecVars, kernelVars, localVars, rxCount, clientID, qos, session, run,
                 serving, conn, sub, attempts, delivered, rxLog,
                 queueVars, lifeVars>>

\* The library calls the subscription callback with the oldest payload it
\* holds, when the callback is not running (ordered delivery, its default).
HandleStart ==
  /\ busy = NoPayload
  /\ inbox # <<>>
  /\ busy' = Head(inbox)
  /\ inbox' = Tail(inbox)
  /\ UNCHANGED <<codecVars, kernelVars, localVars, rxCount, clientID, qos, session, run,
                 serving, conn, sub, attempts, delivered, rxLog,
                 queueVars, lifeVars>>

\* A mutant of HandleEnd: a handler error drops the connection.
HandleEndDisconnecting ==
  /\ busy # NoPayload
  /\ LET h == ReceiveHandler(links, routes, neigh, busy, ~seg6)
     IN /\ routes' = h.routes
        /\ neigh' = h.neigh
        /\ rxLog' = Append(rxLog, [payload |-> busy, errs |-> h.errs])
        /\ rxLines' = rxLines \o ReceiveLines(busy, h.errs)
        /\ IF h.errs # <<>> THEN conn' = "down" /\ sub' = "none"
           ELSE UNCHANGED <<conn, sub>>
  /\ busy' = NoPayload
  /\ UNCHANGED <<codecVars, links, seg6, localVars, rxCount, clientID, qos, session, run,
                 serving, attempts, delivered, inbox, queued, unhandled,
                 lifeVars>>

\* The subscription callback: ReceiveHandler runs on the payload, its
\* error is logged, the callback returns.
HandleEnd ==
  /\ busy # NoPayload
  /\ LET h == ReceiveHandler(links, routes, neigh, busy, ~seg6)
     IN /\ routes' = h.routes
        /\ neigh' = h.neigh
        /\ rxLog' = Append(rxLog, [payload |-> busy, errs |-> h.errs])
        /\ rxLines' = rxLines \o ReceiveLines(busy, h.errs)
  /\ busy' = NoPayload
  /\ UNCHANGED <<codecVars, links, seg6, localVars, rxCount, clientID, qos, session, run,
                 serving, conn, sub, attempts, delivered, inbox, queued,
                 unhandled, lifeVars>>

\* Run after the context is done: the client disconnects and Run returns
\* nil; payloads not yet given to the callback are dropped.
Cancel ==
  /\ main = "running"
  /\ run = "waiting"
  /\ ctx = "cancelled"
  /\ run' = "stopped"
  /\ conn' = "down"
  /\ sub' = "none"
  /\ inbox' = <<>>
  /\ UNCHANGED <<codecVars, kernelVars, localVars, rxCount, clientID, qos, session,
                 serving, attempts, delivered, busy, rxLog, queueVars,
                 lifeVars>>

(* ---------------------------- the process ----------------------------- *)

\* The identifiers of the start-up check: "ffffffffffff" and "ffff".
AllOnes(n) == [i \in 1..n |-> "f"]

\* The values of srv6_net: the default and a prefix longer than 64 bits.
Srv6Configs == {Srv6Net, [addr |-> Srv6Net.addr, ones |-> 72]}

\* A mutant of Start: the tasks are started whatever srv6_net is.
StartUnchecked ==
  /\ main = "start"
  /\ main' = "running"
  /\ UNCHANGED <<codecVars, kernelVars, localVars, rxCount, brokerVars,
                 exit, ctx, serve, sock, bindable, srv6cfg, removed>>

\* The command's Run up to the start of the tasks: the signals are tied to
\* the context, then srv6_net is checked by one encoding of the largest
\* identifiers; log.Fatalf ends the process with status 1.
Start ==
  /\ main = "start"
  /\ IF EncodeSRv6Endpoint(srv6cfg, AllOnes(VpcNibbles), AllOnes(AttNibbles)).err # NoErr
     THEN main' = "exited" /\ exit' = "nonzero"
     ELSE main' = "running" /\ exit' = exit
  /\ UNCHANGED <<codecVars, kernelVars, localVars, rxCount, brokerVars,
                 ctx, serve, sock, bindable, srv6cfg, removed>>

\* SIGINT or SIGTERM: signal.NotifyContext cancels the context.
Signal ==
  /\ main # "exited"
  /\ ctx = "live"
  /\ ctx' = "cancelled"
  /\ UNCHANGED <<codecVars, kernelVars, localVars, rxCount, brokerVars,
                 main, exit, serve, sock, bindable, srv6cfg, removed>>

\* A mutant of ServeStart: the socket path is bound as it is found.
ServeStartNoUnlink ==
  /\ main = "running"
  /\ serve = "init"
  /\ IF sock # "absent" \/ ~bindable
     THEN serve' = "failed" /\ UNCHANGED <<sock, serving>>
     ELSE serve' = "listening" /\ sock' = "bound" /\ serving' = TRUE
  /\ UNCHANGED <<codecVars, kernelVars, localVars, rxCount, clientID, qos, session, run,
                 conn, sub, attempts, delivered, inbox, busy, rxLog,
                 queueVars, main, exit, ctx, bindable, srv6cfg, removed>>

\* Local.Serve up to its wait for the context: the socket path is removed
\* (an error other than "does not exist" is returned), the socket is bound
\* (an error is returned) and the server is started on it.
ServeStart ==
  /\ main = "running"
  /\ serve = "init"
  /\ removed' = (sock = "stale")
  /\ IF sock = "locked"
     THEN serve' = "failed" /\ UNCHANGED <<sock, serving>>
     ELSE IF ~bindable
     THEN serve' = "failed" /\ sock' = "absent" /\ UNCHANGED serving
     ELSE serve' = "listening" /\ sock' = "bound" /\ serving' = TRUE
  /\ UNCHANGED <<codecVars, kernelVars, localVars, rxCount, clientID, qos, session, run,
                 conn, sub, attempts, delivered, inbox, busy, rxLog,
                 queueVars, main, exit, ctx, bindable, srv6cfg>>

\* The server's accept loop fails: s.Serve returns the error, which is put
\* into routineErr; Serve itself goes on waiting for the context.
AcceptFails ==
  /\ main = "running"
  /\ serve = "listening"
  /\ serve' = "broken"
  /\ serving' = FALSE
  /\ UNCHANGED <<codecVars, kernelVars, localVars, rxCount, clientID, qos, session, run,
                 conn, sub, attempts, delivered, inbox, busy, rxLog,
                 queueVars, main, exit, ctx, sock, bindable, srv6cfg, removed>>

\* Local.Serve after the context is done: s.Stop() closes the listener and
\* every connection at once, and Serve returns what the accept loop
\* returned. Handlers that are running are not waited for.
ServeStop ==
  /\ main = "running"
  /\ ctx = "cancelled"
  /\ serve \in {"listening", "broken"}
  /\ serve' = IF serve = "broken" THEN "failed" ELSE "stopped"
  /\ serving' = FALSE
  /\ UNCHANGED <<codecVars, kernelVars, localVars, rxCount, clientID, qos, session, run,
                 conn, sub, attempts, delivered, inbox, busy, rxLog,
                 queueVars, main, exit, ctx, sock, bindable, srv6cfg, removed>>

\* A mutant of Finish: main ends only when both tasks returned nil.
FinishWhenClean ==
  /\ main = "running"
  /\ serve = "stopped"
  /\ run = "stopped"
  /\ main' = "exited"
  /\ exit' = "zero"
  /\ UNCHANGED <<codecVars, kernelVars, localVars, rxCount, brokerVars,
                 ctx, serve, sock, bindable, srv6cfg, removed>>

\* g.Wait() returns once both tasks have: an error is logged, "Shutdown" is
\* logged, and the command's Run returns, so that main ends with status 0.
Finish ==
  /\ main = "running"
  /\ serve \in {"failed", "stopped"}
  /\ run \in {"failed", "stopped"}
  /\ main' = "exited"
  /\ exit' = "zero"
  /\ UNCHANGED <<codecVars, kernelVars, localVars, rxCount, brokerVars,
                 ctx, serve, sock, bindable, srv6cfg, removed>>

(* ------------------------- the routes received ------------------------ *)

\* The kernel after the payloads of a log were handled one after the
\* other, from the given routes and neighbour entries.
RECURSIVE KernelAfter(_, _, _, _)
KernelAfter(lnk, kernel, log, refuse) ==
  IF log = <<>> THEN kernel
  ELSE LET h == ReceiveHandler(lnk, kernel.routes, kernel.neigh, log[1].payload, refuse)
       IN KernelAfter(lnk, [routes |-> h.routes, neigh |-> h.neigh], Tail(log), refuse)

(* --------------------- local and remote side at once ------------------ *)

\* The calls of the clients: one registers and deregisters an attachment
\* and registers another, the other registers the first; no network is
\* announced.
RaceRequests(c) ==
  IF c = "c1"
  THEN {[op |-> "Register", vpc |-> <<"1">>, att |-> <<"1">>, nets |-> <<>>],
        [op |-> "Deregister", vpc |-> <<"1">>, att |-> <<"1">>, nets |-> <<>>],
        [op |-> "Register", vpc |-> <<"2">>, att |-> <<"1">>, nets |-> <<>>]}
  ELSE {[op |-> "Register", vpc |-> <<"1">>, att |-> <<"1">>, nets |-> <<>>]}

\* A Route message for the endpoint of vpc v.
RoutePayloadFor(v, network, segments, status) ==
  [wire |-> "proto",
   env |-> [kind |-> "Route", network |-> network,
            srv6_endpoint |-> Endpoint(v, <<"1">>),
            srv6_segments |-> segments, status |-> status]]

(* ------------------------- the codec at work -------------------------- *)

NoCodec == [err |-> "unset"]

\* The arguments of Encode. Base prefixes as srv6_net gives them, network
\* address and length: the default, a /16, a /48, a /64, and one longer
\* than 64 bits. Identifiers as a request carries them: of full width with
\* and without leading zeros, shorter, too wide, and no hex text.
CodecInputs ==
  [base : {Srv6Net,
           [addr |-> <<64512, 0, 0, 0, 0, 0, 0, 0>>, ones |-> 16],
           [addr |-> <<8193, 3512, 1, 0, 0, 0, 0, 0>>, ones |-> 48],
           [addr |-> <<8193, 3512, 1, 2, 0, 0, 0, 0>>, ones |-> 64],
           [addr |-> <<8193, 3512, 1, 2, 768, 0, 0, 0>>, ones |-> 72]},
   vpc : {PadLeft(<<"1">>, VpcNibbles, "0"),
          PadLeft(<<"a">>, VpcNibbles, "0"),
          PadLeft(<<"1", "0", "0", "0", "0">>, VpcNibbles, "0"),
          <<"0", "1", "2", "3", "4", "5", "6", "7", "8", "9", "a", "b">>,
          PadLeft(<<>>, VpcNibbles, "0"),
          PadLeft(<<>>, VpcNibbles, "f"),
          <<"1">>,
          <<"z">>,
          <<"1">> \o PadLeft(<<>>, VpcNibbles, "0")},
   att : {PadLeft(<<"1">>, AttNibbles, "0"),
          <<"0", "0", "a", "0">>,
          PadLeft(<<>>, AttNibbles, "f"),
          <<"1">>,
          <<"1">> \o PadLeft(<<>>, AttNibbles, "0")}]

\* A mutant of generateSRv6Endpoint: the groups of the vpc are printed
\* lowest first.
generateSRv6EndpointLowFirst(vpcHex, vpcAttachmentHex) ==
  LET v == ToDigits(HexAlphabet, PadLeft(vpcHex, VpcNibbles, "0"))
      a == ToDigits(HexAlphabet, PadLeft(vpcAttachmentHex, AttNibbles, "0"))
  IN <<64512, 0, 0, 0, GroupOf(v, 3), GroupOf(v, 2), GroupOf(v, 1), GroupOf(a, 1)>>

\* generateSRv6Endpoint of the test script: the identifiers are padded to
\* 12 and 4 hex characters and printed after "fc00::", four by four.
generateSRv6Endpoint(vpcHex, vpcAttachmentHex) ==
  LET v == ToDigits(HexAlphabet, PadLeft(vpcHex, VpcNibbles, "0"))
      a == ToDigits(HexAlphabet, PadLeft(vpcAttachmentHex, AttNibbles, "0"))
  IN <<64512, 0, 0, 0, GroupOf(v, 1), GroupOf(v, 2), GroupOf(v, 3), GroupOf(a, 1)>>

\* A mutant of CodecEncode: the address is formed under the default prefix.
CodecEncodeDefaultBase ==
  /\ codecEnc = NoCodec
  /\ codecEnc' = EncodeSRv6Endpoint([addr |-> Srv6Net.addr, ones |-> codecIn.base.ones],
                                    codecIn.vpc, codecIn.att)
  /\ UNCHANGED <<kernelVars, localVars, remoteVars, codecIn, codecDec, codecNames>>

\* RegisterHandler / DeregisterHandler: the endpoint is encoded from
\* srv6_net and the identifiers of the request.
CodecEncode ==
  /\ codecEnc = NoCodec
  /\ codecEnc' = EncodeSRv6Endpoint(codecIn.base, codecIn.vpc, codecIn.att)
  /\ UNCHANGED <<kernelVars, localVars, remoteVars, codecIn, codecDec, codecNames>>

\* A mutant of CodecDecode: the identifiers come back without their
\* leading zeros.
CodecDecodeStripped ==
  /\ codecEnc # NoCodec
  /\ codecEnc.err = NoErr
  /\ codecDec = NoCodec
  /\ codecDec' =
       LET d == DecodeSRv6Endpoint(codecEnc.ip)
       IN [err |-> NoErr,
           vpc |-> ToText(HexAlphabet, StripZeros(ToDigits(HexAlphabet, d.vpc))),
           att |-> ToText(HexAlphabet, StripZeros(ToDigits(HexAlphabet, d.att)))]
  /\ UNCHANGED <<kernelVars, localVars, remoteVars, codecIn, codecEnc, codecNames>>

\* RouteIngressAdd / RouteIngressDel: the address is decoded into the pair.
CodecDecode ==
  /\ codecEnc # NoCodec
  /\ codecEnc.err = NoErr
  /\ codecDec = NoCodec
  /\ codecDec' =
       LET d == DecodeSRv6Endpoint(codecEnc.ip)
       IN [err |-> NoErr, vpc |-> d.vpc, att |-> d.att]
  /\ UNCHANGED <<kernelVars, localVars, remoteVars, codecIn, codecEnc, codecNames>>

\* A mutant of CodecLookup: the names are made of the hex identifiers.
CodecLookupHex ==
  /\ codecDec # NoCodec
  /\ codecNames = NoCodec
  /\ codecNames' =
       [err |-> NoErr,
        host |-> GenerateInterfaceNameHost(codecDec.vpc, codecDec.att),
        vrf |-> GenerateInterfaceNameVRF(codecDec.vpc, codecDec.att)]
  /\ UNCHANGED <<kernelVars, localVars, remoteVars, codecIn, codecEnc, codecDec>>

\* RouteIngressAdd and routeingress.Add: the pair is converted to base 62
\* and the host device and the VRF device are looked up by the names made
\* of it.
CodecLookup ==
  /\ codecDec # NoCodec
  /\ codecNames = NoCodec
  /\ codecNames' =
       LET v == HexToBase62(codecDec.vpc)
           a == HexToBase62(codecDec.att)
       IN IF v.err # NoErr \/ a.err # NoErr
          THEN [err |-> "InvalidIdentifier", host |-> <<>>, vrf |-> <<>>]
          ELSE [err |-> NoErr,
                host |-> GenerateInterfaceNameHost(v.text, a.text),
                vrf |-> GenerateInterfaceNameVRF(v.text, a.text)]
  /\ UNCHANGED <<kernelVars, localVars, remoteVars, codecIn, codecEnc, codecDec>>

(* --------------------------- specifications --------------------------- *)

InitLocal ==
  /\ pc = [c \in Conns |-> "idle"]
  /\ req = [c \in Conns |-> NoReq]
  /\ idx = [c \in Conns |-> 0]
  /\ handed = [c \in Conns |-> <<>>]
  /\ reply = [c \in Conns |-> NoReply]
  /\ ingress = [c \in Conns |-> NoIngress]
  /\ prev = [c \in Conns |-> NoCall]
  /\ calls = 0
  /\ txLost = 0
  /\ txLog = <<>>

\* The process once both tasks run: the configuration was accepted, the
\* socket is bound and served, no signal has come.
InitRunning ==
  /\ main = "running"
  /\ exit = "none"
  /\ ctx = "live"
  /\ serve = "listening"
  /\ sock = "bound"
  /\ bindable = TRUE
  /\ srv6cfg = Srv6Net
  /\ removed = FALSE

\* The codec is looked at apart from the agent's run.
InitCodecIdle ==
  /\ codecIn = [base |-> Srv6Net, vpc |-> <<>>, att |-> <<>>]
  /\ codecEnc = NoCodec
  /\ codecDec = NoCodec
  /\ codecNames = NoCodec

\* Nothing logged by the receive side, nothing held by the broker.
InitQueue ==
  /\ rxLines = <<>>
  /\ queued = <<>>
  /\ unhandled = <<>>

\* The remote client before Run: the default configuration, no connection.
InitBrokerIdle ==
  /\ clientID = ""
  /\ qos = 1
  /\ session = "none"
  /\ run = "created"
  /\ serving = TRUE
  /\ conn = "down"
  /\ sub = "none"
  /\ attempts = 0
  /\ delivered = <<>>
  /\ inbox = <<>>
  /\ busy = NoPayload
  /\ rxLog = <<>>
  /\ InitQueue
  /\ InitRunning

InitRemote == rxCount = 0 /\ InitBrokerIdle

Init ==
  /\ links \in LinkConfigs
  /\ seg6 \in BOOLEAN
  /\ routes \in {EmptyRoutes, StaleRoutes}
  /\ neigh = {}
  /\ InitLocal
  /\ InitRemote
  /\ InitCodecIdle

\* The handlers of all connections. The outcome of a publish, which no
\* handler sees, is left to the part of the model with one client.
LocalNext ==
  \/ \E c \in Conns, r \in Requests : Call(c, r)
  \/ \E c \in Conns : HandlerIngress(c)
  \/ \E c \in Conns, marshalFails \in BOOLEAN : HandlerPublish(c, marshalFails, TRUE)
  \/ \E c \in Conns : HandlerReturn(c)

\* One client, its calls made one after the other on one connection.
SerialNext ==
  \/ \E r \in Requests : Call("c1", r)
  \/ HandlerIngress("c1")
  \/ \E marshalFails, published \in BOOLEAN :
        HandlerPublish("c1", marshalFails, published)
  \/ HandlerReturn("c1")

RemoteNext == \E payload \in Payloads : Deliver(payload)

\* The remote client from Run on, on a host with every device: any
\* configuration of identifier and QoS.
InitBroker ==
  /\ links = AllLinks
  /\ seg6 = TRUE
  /\ routes = EmptyRoutes
  /\ neigh = {}
  /\ InitLocal
  /\ InitCodecIdle
  /\ rxCount = 0
  /\ \E cfg \in BrokerConfigs : clientID = cfg[1] /\ qos = cfg[2]
  /\ session = "none"
  /\ run = "created"
  /\ serving = TRUE
  /\ conn = "down"
  /\ sub = "none"
  /\ attempts = 0
  /\ delivered = <<>>
  /\ inbox = <<>>
  /\ busy = NoPayload
  /\ rxLog = <<>>
  /\ rxLines = <<>>
  /\ queued \in QueuedAtStart(clientID, qos)
  /\ unhandled = <<>>
  /\ InitRunning

BrokerNext ==
  \/ \E ok \in BOOLEAN : RunConnect(ok)
  \/ Shutdown
  \/ ServeStop
  \/ Subscribe
  \/ BrokerRedeliver
  \/ \E outcome \in {"granted", "refused", "timedout"} : SubAck(outcome)
  \/ ConnectionLost
  \/ \E ok \in BOOLEAN : Reconnect(ok)
  \/ \E payload \in BrokerPayloads : BrokerDeliver(payload)
  \/ HandleStart
  \/ HandleEnd

\* The process from its start, on a host with every device: any state of
\* the socket path, either value of srv6_net.
InitMain ==
  /\ links = AllLinks
  /\ seg6 = TRUE
  /\ routes = EmptyRoutes
  /\ neigh = {}
  /\ InitLocal
  /\ InitCodecIdle
  /\ rxCount = 0
  /\ clientID = ""
  /\ qos = 1
  /\ session = "none"
  /\ run = "init"
  /\ serving = FALSE
  /\ conn = "down"
  /\ sub = "none"
  /\ attempts = 0
  /\ delivered = <<>>
  /\ inbox = <<>>
  /\ busy = NoPayload
  /\ rxLog = <<>>
  /\ InitQueue
  /\ main = "start"
  /\ exit = "none"
  /\ ctx = "live"
  /\ serve = "init"
  /\ sock \in {"absent", "stale", "locked"}
  /\ bindable \in BOOLEAN
  /\ srv6cfg \in Srv6Configs
  /\ removed = FALSE

\* The requests of the one client of this part of the model.
MainRequests ==
  {r \in Requests : r.vpc = <<"1">> /\ r.nets = <<"10.1.1.0/24">>}

\* The steps of the tasks, which only a running process takes.
TaskNext ==
  \/ ServeStart
  \/ AcceptFails
  \/ ServeStop
  \/ RunCreate
  \/ \E ok \in BOOLEAN : RunConnect(ok)
  \/ Subscribe
  \/ \E outcome \in {"granted", "refused", "timedout"} : SubAck(outcome)
  \/ ConnectionLost
  \/ \E ok \in BOOLEAN : Reconnect(ok)
  \/ Shutdown
  \/ Cancel
  \/ Finish

\* The steps of the handlers of the one client.
ClientNext ==
  \/ \E r \in MainRequests : Call("c1", r)
  \/ HandlerIngress("c1")
  \/ \E marshalFails, published \in BOOLEAN :
        HandlerPublish("c1", marshalFails, published)
  \/ SendPanics("c1")
  \/ HandlerReturn("c1")

MainNext ==
  \/ Start
  \/ Signal
  \/ main = "running" /\ TaskNext
  \/ main = "running" /\ ClientNext

\* What the scheduler and the libraries' timeouts give: a task that can
\* take its next step takes it, and so does main.
MainFairness ==
  /\ WF_vars(Start)
  /\ WF_vars(ServeStart)
  /\ WF_vars(ServeStop)
  /\ WF_vars(RunCreate)
  /\ WF_vars(\E ok \in BOOLEAN : RunConnect(ok))
  /\ WF_vars(Shutdown)
  /\ WF_vars(Cancel)
  /\ WF_vars(Finish)

\* The codec: any base prefix and identifiers, on a host with every
\* device and an agent at rest.
InitCodec ==
  /\ links = AllLinks
  /\ seg6 = TRUE
  /\ routes = EmptyRoutes
  /\ neigh = {}
  /\ InitLocal
  /\ InitRemote
  /\ codecIn \in CodecInputs
  /\ codecEnc = NoCodec
  /\ codecDec = NoCodec
  /\ codecNames = NoCodec

CodecNext ==
  \/ CodecEncode
  \/ CodecDecode
  \/ CodecLookup

\* The receive side in its steady state: connected and subscribed, under
\* the default configuration, on a host with some or all of the devices;
\* nothing was received yet, or one Route ADD was and has been handled.
InitRoutes ==
  /\ links \in LinkConfigs
  /\ seg6 \in BOOLEAN
  /\ delivered \in {<<>>, <<RoutePayload("192.168.2.0/24", <<Seg3>>, "ADD")>>}
  /\ LET h == ReceiveHandler(links, EmptyRoutes, {}, delivered[1], ~seg6)
     IN IF delivered = <<>>
        THEN routes = EmptyRoutes /\ neigh = {} /\ rxLog = <<>> /\ rxLines = <<>>
        ELSE /\ routes = h.routes
             /\ neigh = h.neigh
             /\ rxLog = <<[payload |-> delivered[1], errs |-> h.errs]>>
             /\ rxLines = ReceiveLines(delivered[1], h.errs)
  /\ queued = <<>>
  /\ unhandled = <<>>
  /\ InitLocal
  /\ InitCodecIdle
  /\ rxCount = 0
  /\ clientID = ""
  /\ qos = 1
  /\ session = SessionOf("", 1)
  /\ run = "waiting"
  /\ serving = TRUE
  /\ conn = "up"
  /\ sub = "granted"
  /\ attempts = 1
  /\ inbox = <<>>
  /\ busy = NoPayload
  /\ InitRunning

\* The Route messages of the steady state: ADD and DELETE for a network
\* and for a host, with either of two segment lists, and a DELETE whose
\* segment list does not parse, all for one endpoint.
RoutesNext ==
  \/ \E n \in {"192.168.2.0/24", "192.168.2.5/32"} :
       \/ \E s \in {<<Seg3>>, <<Seg2, Seg3>>}, st \in {"ADD", "DELETE"} :
            BrokerDeliver(RoutePayload(n, s, st))
       \/ BrokerDeliver(RoutePayload(n, << <<>> >>, "DELETE"))
  \/ HandleStart
  \/ HandleEnd

\* The local service and the receive side together, on a host with every
\* device and the ingress route an earlier run left: the handlers of two
\* connections and the subscription callback run side by side.
InitRace ==
  /\ links = AllLinks
  /\ seg6 = TRUE
  /\ routes = StaleRoutes
  /\ neigh = {}
  /\ InitLocal
  /\ InitCodecIdle
  /\ rxCount = 0
  /\ clientID = ""
  /\ qos = 1
  /\ session = SessionOf("", 1)
  /\ run = "waiting"
  /\ serving = TRUE
  /\ conn = "up"
  /\ sub = "granted"
  /\ attempts = 1
  /\ delivered = <<>>
  /\ inbox = <<>>
  /\ busy = NoPayload
  /\ rxLog = <<>>
  /\ InitQueue
  /\ InitRunning

\* The Route messages received meanwhile: two ADDs for one destination
\* with different segment lists, and an ADD and a DELETE for a host of the
\* other attachment.
RaceNext ==
  \/ \E c \in Conns : \E r \in RaceRequests(c) : Call(c, r)
  \/ \E c \in Conns : HandlerIngress(c)
  \/ \E c \in Conns : HandlerReturn(c)
  \/ \E payload \in
        {RoutePayloadFor(<<"1">>, "192.168.2.0/24", <<Seg3>>, "ADD"),
         RoutePayloadFor(<<"1">>, "192.168.2.0/24", <<Seg2, Seg3>>, "ADD"),
         RoutePayloadFor(<<"2">>, "192.168.2.5/32", <<Seg3>>, "ADD"),
         RoutePayloadFor(<<"2">>, "192.168.2.5/32", <<Seg3>>, "DELETE")} :
        BrokerDeliver(payload)
  \/ HandleStart
  \/ HandleEnd

\* The local service: the connections' handlers, interleaved.
Spec == Init /\ [][LocalNext]_vars

\* The local service with one client.
SpecSerial == Init /\ [][SerialNext]_vars

\* The remote client: the receive handler, one payload after the other.
SpecRemote == Init /\ [][RemoteNext]_vars

\* The routes received in the steady state.
SpecRoutes == InitRoutes /\ [][RoutesNext]_vars

\* Local handlers and the subscription callback, interleaved.
SpecRace == InitRace /\ [][RaceNext]_vars

\* The codec on its own.
SpecCodec == InitCodec /\ [][CodecNext]_vars

\* The process: start-up, the two tasks, the signal, the end.
SpecMain == InitMain /\ [][MainNext]_vars

\* The process under the fairness of its scheduling.
SpecMainLive == InitMain /\ [][MainNext]_vars /\ MainFairness

\* The remote client: its connection, its subscription and its callback.
SpecBroker == InitBroker /\ [][BrokerNext]_vars

(* ------------------------------ the claims ---------------------------- *)

\* The attachments provisioned on this host, by their identifiers.
Attachments == {[vpc |-> <<"1">>, att |-> <<"1">>], [vpc |-> <<"2">>, att |-> <<"1">>]}

RouteNetworks == {"192.168.2.0/24", "192.168.2.5/32", "fd00::5/128"}

Active(c) == pc[c] \in {"called", "publishing"}

\* The envelopes of kind `kind` for the first n networks of request r.
FirstEnvelopes(kind, r, n) ==
  [i \in 1..n |-> [kind |-> kind, network |-> r.nets[i],
                   srv6_endpoint |-> Endpoint(r.vpc, r.att)]]

(* C1: a Register call encodes the endpoint, installs the ingress route,   *)
(* then hands one Register envelope (network, endpoint) per network to the *)
(* remote client, in list order; the reply is confirmed only after the     *)
(* install succeeded and every envelope was handed over.                   *)
C1_RegisterOrder ==
  \A c \in Conns :
    req[c].op = "Register" =>
      /\ Len(handed[c]) <= Len(req[c].nets)
      /\ handed[c] = FirstEnvelopes("Register", req[c], Len(handed[c]))
      /\ handed[c] # <<>> => ingress[c].err = NoErr
      /\ ingress[c].err = NoErr =>
           /\ EncodeSRv6Endpoint(Srv6Net, req[c].vpc, req[c].att).err = NoErr
           /\ Len(ingress[c].held) = 1
           /\ ingress[c].held[1].dst = NewIPNet(Endpoint(req[c].vpc, req[c].att))
      /\ reply[c].msg = "confirmed" =>
           /\ ingress[c].err = NoErr
           /\ handed[c] = FirstEnvelopes("Register", req[c], Len(req[c].nets))

\* A Register with two networks was confirmed.
C1_Witness ==
  \E c \in Conns :
    /\ req[c].op = "Register"
    /\ reply[c].msg = "confirmed"
    /\ Len(req[c].nets) = 2
    /\ handed[c][1].network = req[c].nets[1]
    /\ handed[c][2].network = req[c].nets[2]
    /\ RoutesAt(routes, IngressKey(Endpoint(req[c].vpc, req[c].att))) # <<>>

(* C2: a Register that fails at encoding or at the ingress install hands   *)
(* no envelope over, is not confirmed and leaves the kernel as it was; one *)
(* that fails later leaves the ingress route it installed in place.        *)
C2_RegisterFailure ==
  [][\A c \in Conns :
       (req[c].op = "Register" /\ reply[c].msg = "pending" /\ reply'[c].err # NoErr)
       => /\ routes' = routes
          /\ neigh' = neigh
          /\ reply'[c].msg # "confirmed"
          /\ handed'[c] = handed[c]
          /\ pc[c] = "called" => handed'[c] = <<>>
          /\ pc[c] = "publishing" =>
               /\ ingress'[c].held # <<>>
               /\ ingress'[c].held = ingress[c].held]_vars

\* One Register failed at its ingress install, another at a later step
\* with its route installed.
C2_Witness ==
  \E c, d \in Conns :
    /\ req[c].op = "Register"
    /\ ingress[c].err \in {"DeviceMissing", "VRFMissing", "Netlink"}
    /\ reply[c].err = ingress[c].err
    /\ handed[c] = <<>>
    /\ req[d].op = "Register"
    /\ reply[d].err = "Marshal"
    /\ RoutesAt(routes, IngressKey(Endpoint(req[d].vpc, req[d].att))) = ingress[d].held
    /\ ingress[d].held # <<>>

(* C3, as claimed: a handler failure reaches the caller as a reply that is *)
(* not confirmed, never through the error channel of the RPC framework.    *)
C3_FailureInReply ==
  \A c \in Conns :
    pc[c] = "done" => reply[c].err = NoErr /\ reply[c].msg # "nil"

(* C4: a Deregister call encodes the endpoint, removes the ingress route,  *)
(* then hands one Deregister envelope per network over, in list order; it  *)
(* is confirmed only after the removal succeeded and every envelope was    *)
(* handed over, and a failed removal hands no envelope over.               *)
C4_DeregisterOrder ==
  \A c \in Conns :
    req[c].op = "Deregister" =>
      /\ Len(handed[c]) <= Len(req[c].nets)
      /\ handed[c] = FirstEnvelopes("Deregister", req[c], Len(handed[c]))
      /\ handed[c] # <<>> => ingress[c].err = NoErr
      /\ ingress[c].err = NoErr =>
           /\ EncodeSRv6Endpoint(Srv6Net, req[c].vpc, req[c].att).err = NoErr
           /\ Len(ingress[c].before) = 1
           /\ ingress[c].held = <<>>
      /\ reply[c].msg = "confirmed" =>
           /\ ingress[c].err = NoErr
           /\ handed[c] = FirstEnvelopes("Deregister", req[c], Len(req[c].nets))

\* A Deregister with two networks was confirmed.
C4_Witness ==
  \E c \in Conns :
    /\ req[c].op = "Deregister"
    /\ reply[c].msg = "confirmed"
    /\ Len(req[c].nets) = 2
    /\ handed[c][1].network = req[c].nets[1]
    /\ handed[c][2].network = req[c].nets[2]
    /\ ingress[c].before # <<>>

(* C5: Register is idempotent on the kernel: from every kernel state, a    *)
(* second Register with the same arguments leaves the routes the first one *)
(* left, and no Register or Deregister installs a neighbour entry.         *)
C5_RegisterIdempotent ==
  /\ neigh = {}
  /\ \A v \in VpcTexts, a \in AttTexts :
       LET r == [op |-> "Register", vpc |-> v, att |-> a, nets |-> <<"10.1.1.0/24">>]
           one == HandlerKernel(links, routes, r, ~seg6)
           two == HandlerKernel(links, one.routes, r, ~seg6)
       IN two.routes = one.routes

\* A second Register with the arguments of the confirmed one before it was
\* confirmed, and the kernel holds one route for the endpoint.
C5_Witness ==
  \E c \in Conns :
    /\ prev[c] = "Register"
    /\ req[c].op = "Register"
    /\ reply[c].msg = "confirmed"
    /\ ingress[c].before = ingress[c].held
    /\ Len(RoutesAt(routes, IngressKey(Endpoint(req[c].vpc, req[c].att)))) = 1

(* C6: from a kernel state with no ingress route for the endpoint,         *)
(* Register followed by Deregister with the same arguments gives the       *)
(* kernel state back.                                                      *)
C6_DeregisterInverts ==
  \A v \in VpcTexts, a \in AttTexts :
    LET reg == [op |-> "Register", vpc |-> v, att |-> a, nets |-> <<>>]
        dereg == [op |-> "Deregister", vpc |-> v, att |-> a, nets |-> <<>>]
        e == EncodeSRv6Endpoint(Srv6Net, v, a)
        one == HandlerKernel(links, routes, reg, ~seg6)
        two == HandlerKernel(links, one.routes, dereg, ~seg6)
    IN (e.err = NoErr /\ RoutesAt(routes, IngressKey(e.ip)) = <<>>)
         => two.routes = routes

\* A Deregister with the arguments of the confirmed Register before it was
\* confirmed and removed the route.
C6_Witness ==
  \E c \in Conns :
    /\ prev[c] = "Register"
    /\ req[c].op = "Deregister"
    /\ reply[c].msg = "confirmed"
    /\ ingress[c].before # <<>>
    /\ RoutesAt(routes, IngressKey(Endpoint(req[c].vpc, req[c].att))) = <<>>

(* C7, as claimed: removing an ingress route the kernel does not hold is a *)
(* success: a Deregister for an endpoint without ingress route returns no  *)
(* error and leaves the kernel state as it was.                            *)
C7_AbsentDeleteSucceeds ==
  \A c \in Conns :
    ( /\ req[c].op = "Deregister"
      /\ ingress[c].err # "pending"
      /\ ingress[c].before = <<>>
      /\ HostDev(req[c].vpc, req[c].att) \in DOMAIN links
      /\ seg6 )
    => ingress[c].err = NoErr /\ ingress[c].held = <<>>

(* C8, as claimed: at most one Register or Deregister handler of a (vpc,   *)
(* attachment) pair is between its start and its reply at any time.        *)
C8_SerializedPerPair ==
  \A c, d \in Conns :
    (c # d /\ Active(c) /\ Active(d))
      => <<req[c].vpc, req[c].att>> # <<req[d].vpc, req[d].att>>

(* C9: EgressAdd leaves a permanent proxy neighbour entry for the address  *)
(* of the prefix on the host device of the attachment when the prefix is a *)
(* host prefix (IPv4 /32, IPv6 /128), and installs no neighbour entry for  *)
(* a shorter prefix.                                                       *)
C9_HostPrefixRule ==
  \A a \in Attachments, n \in RouteNetworks, sl \in SegmentLists,
     refuseNeigh \in BOOLEAN, refuseRoute \in BOOLEAN :
    LET h == RouteEgressAdd(links, routes, neigh, n, Endpoint(a.vpc, a.att), sl,
                            refuseNeigh, refuseRoute)
        prefix == ParseIPNet(n).net
        host == \/ prefix.fam = 4 /\ prefix.ones = 32
                \/ prefix.fam = 6 /\ prefix.ones = 128
        entry == [dev |-> HostDev(a.vpc, a.att), ip |-> prefix.ip,
                  state |-> "PERMANENT", flags |-> "PROXY"]
    IN /\ (host /\ h.errs = <<>>) => entry \in h.neigh
       /\ ~host => h.neigh = neigh
       /\ h.neigh \subseteq neigh \cup {entry}

\* A Route ADD for a host prefix and one for a shorter prefix were
\* processed: both routes are held, and the one proxy entry.
C9_Witness ==
  \E a \in Attachments :
    LET table == AllLinks[VrfDev(a.vpc, a.att)].table
    IN /\ RoutesAt(routes, <<table, ParseIPNet("192.168.2.5/32").net>>) # <<>>
       /\ RoutesAt(routes, <<table, ParseIPNet("192.168.2.0/24").net>>) # <<>>
       /\ neigh = {[dev |-> HostDev(a.vpc, a.att), ip |-> <<192, 168, 2, 5>>,
                    state |-> "PERMANENT", flags |-> "PROXY"]}

C11_IngressAddInstalls ==
  \A a \in Attachments :
    LET ep == Endpoint(a.vpc, a.att)
        h == RouteIngressAdd(links, routes, ep, ~seg6)
        vrf == VrfDev(a.vpc, a.att)
        key == <<254, [fam |-> 6, ip |-> ep, ones |-> 128]>>
    IN /\ h.err = NoErr =>
            /\ HostDev(a.vpc, a.att) \in DOMAIN links
            /\ vrf \in DOMAIN links
            /\ RoutesAt(h.routes, key) =
                 <<[table |-> 254, dst |-> [fam |-> 6, ip |-> ep, ones |-> 128],
                    dev |-> HostDev(a.vpc, a.att),
                    encap |-> [type |-> "seg6local", action |-> "End.DT46",
                               vrftable |-> links[vrf].table]]>>
            /\ \A k \in (DOMAIN routes \cup DOMAIN h.routes) \ {key} :
                 RoutesAt(h.routes, k) = RoutesAt(routes, k)
       /\ h.err # NoErr => h.routes = routes

\* A Register replaced the route an earlier run had left for its endpoint
\* by the one route with the table of the VRF.
C11_Witness ==
  \E c \in Conns :
    /\ req[c].op = "Register"
    /\ ingress[c].err = NoErr
    /\ Len(ingress[c].before) = 1
    /\ ingress[c].before[1].encap.vrftable = 99
    /\ Len(ingress[c].held) = 1
    /\ ingress[c].held[1].encap.vrftable = 100
    /\ ingress[c].held[1].dev = HostDev(req[c].vpc, req[c].att)
    /\ RoutesAt(routes, IngressKey(Endpoint(req[c].vpc, req[c].att))) = ingress[c].held

HostNetworks == {"192.168.2.5/32", "fd00::5/128"}

(* C12: EgressAdd and EgressDelete do not short-circuit: for a host prefix *)
(* the neighbour operation and the route operation are each carried out    *)
(* as if alone, whichever of them fails, and the errors returned are those *)
(* of the two together (none only when both succeeded).                    *)
C12_NoShortCircuit ==
  \A a \in Attachments, n \in HostNetworks,
     refuseNeigh \in BOOLEAN, refuseRoute \in BOOLEAN :
    LET ep == Endpoint(a.vpc, a.att)
        prefix == ParseIPNet(n).net
        pair == PairOf(ep)
        add == RouteEgressAdd(links, routes, neigh, n, ep, <<Seg3>>,
                              refuseNeigh, refuseRoute)
        nAdd == NeighborProxyAdd(links, neigh, prefix, pair.vpc, pair.att, refuseNeigh)
        rAdd == EgressAdd(links, routes, pair.vpc, pair.att, prefix, <<Seg3>>,
                          refuseRoute)
        del == RouteEgressDel(links, routes, neigh, n, ep, <<Seg3>>,
                              refuseNeigh, refuseRoute)
        nDel == NeighborProxyDelete(links, neigh, prefix, pair.vpc, pair.att,
                                    refuseNeigh)
        rDel == EgressDelete(links, routes, pair.vpc, pair.att, prefix, <<Seg3>>,
                             refuseRoute)
    IN /\ add.neigh = nAdd.neigh
       /\ add.routes = rAdd.routes
       /\ add.errs = ErrList(nAdd.err) \o ErrList(rAdd.err)
       /\ add.errs = <<>> <=> (nAdd.err = NoErr /\ rAdd.err = NoErr)
       /\ del.neigh = nDel.neigh
       /\ del.routes = rDel.routes
       /\ del.errs = ErrList(nDel.err) \o ErrList(rDel.err)
       /\ del.errs = <<>> <=> (nDel.err = NoErr /\ rDel.err = NoErr)

\* A Route ADD for a host prefix was processed on a host whose host device
\* is missing: the neighbour add failed and the route is installed.
C12_Witness ==
  /\ HostDev(<<"2">>, <<"1">>) \notin DOMAIN links
  /\ neigh = {}
  /\ RoutesAt(routes, <<101, ParseIPNet("192.168.2.5/32").net>>) # <<>>

(* C13, as claimed: EgressDelete treats missing entries as success: with   *)
(* the devices of the attachment present, deleting a prefix whose route    *)
(* or proxy neighbour entry is not installed returns no error and leaves   *)
(* the kernel as it was.                                                   *)
C13_MissingEntriesSucceed ==
  \A a \in Attachments, n \in RouteNetworks :
    LET ep == Endpoint(a.vpc, a.att)
        prefix == ParseIPNet(n).net
        key == <<AllLinks[VrfDev(a.vpc, a.att)].table, prefix>>
        entry == [dev |-> HostDev(a.vpc, a.att), ip |-> prefix.ip,
                  state |-> "PERMANENT", flags |-> "PROXY"]
        del == RouteEgressDel(links, routes, neigh, n, ep, <<Seg3>>, FALSE, FALSE)
    IN ( /\ {HostDev(a.vpc, a.att), VrfDev(a.vpc, a.att), <<"lo-galactic">>}
              \subseteq DOMAIN links
         /\ RoutesAt(routes, key) = <<>> \/ entry \notin neigh )
       => /\ del.errs = <<>>
          /\ del.routes = routes
          /\ del.neigh = neigh

AddPayloads == {p \in BrokerPayloads : p.wire = "proto" /\ p.env.status = "ADD"}

(* C14: the kernel programmer tolerates redelivery: a Route ADD message    *)
(* (host prefix or not) processed a second time succeeds when the first    *)
(* time did and leaves the routes and neighbour entries the first left.    *)
C14_RedeliveryTolerated ==
  \A p \in AddPayloads :
    LET one == ReceiveHandler(links, routes, neigh, p, ~seg6)
        two == ReceiveHandler(links, one.routes, one.neigh, p, ~seg6)
    IN /\ one.errs = <<>> => two.errs = <<>>
       /\ two.routes = one.routes
       /\ two.neigh = one.neigh

\* The Route ADD for the host prefix was delivered and handled twice in a
\* row without error: one route and one proxy entry are held.
C14_Witness ==
  LET p == RoutePayload("192.168.2.5/32", <<Seg3>>, "ADD")
  IN /\ rxLog = <<[payload |-> p, errs |-> <<>>], [payload |-> p, errs |-> <<>>]>>
     /\ Len(RoutesAt(routes, <<100, ParseIPNet("192.168.2.5/32").net>>)) = 1
     /\ neigh = {[dev |-> HostDev(<<"1">>, <<"1">>), ip |-> <<192, 168, 2, 5>>,
                  state |-> "PERMANENT", flags |-> "PROXY"]}

(* C15: a payload that fails to decode or whose kernel programming fails   *)
(* is logged and treated as delivered: when the callback returns, the      *)
(* handler's errors are in the log, nothing is handed to Send, Run goes    *)
(* on, the connection and the subscription are as they were, and the       *)
(* payloads waiting behind it are still waiting for the callback.          *)
C15_ReceiveErrorsSwallowed ==
  [][(busy # NoPayload /\ busy' = NoPayload)
       => LET h == ReceiveHandler(links, routes, neigh, busy, ~seg6)
          IN /\ rxLog' = Append(rxLog, [payload |-> busy, errs |-> h.errs])
             /\ handed' = handed
             /\ run' = run
             /\ serving' = serving
             /\ conn' = conn
             /\ sub' = sub
             /\ inbox' = inbox]_vars

\* A payload that failed (bytes that are no envelope, or the DELETE of a
\* route the kernel does not hold) was followed by a Route ADD that was
\* processed, with the client still connected and subscribed.
C15_Witness ==
  /\ Len(rxLog) = 2
  /\ rxLog[1].errs # <<>>
  /\ rxLog[1].payload \in {TextPayload, RoutePayload("192.168.2.0/24", <<Seg3>>, "DELETE")}
  /\ rxLog[2].payload = RoutePayload("192.168.2.0/24", <<Seg3>>, "ADD")
  /\ rxLog[2].errs = <<>>
  /\ RoutesAt(routes, <<100, ParseIPNet("192.168.2.0/24").net>>) # <<>>
  /\ conn = "up"
  /\ sub = "granted"

\* The kernel after the payloads were handled one after the other.
RECURSIVE ApplyAll(_, _, _)
ApplyAll(payloads, rts, ngh) ==
  IF payloads = <<>> THEN [routes |-> rts, neigh |-> ngh]
  ELSE LET h == ReceiveHandler(AllLinks, rts, ngh, Head(payloads), FALSE)
       IN ApplyAll(Tail(payloads), h.routes, h.neigh)

HandledPayloads == [i \in 1..Len(rxLog) |-> rxLog[i].payload]

(* C16: the payloads of the receive topic are handled one at a time and in *)
(* the order the broker delivered them: the payloads handled are the first *)
(* ones delivered, in that order, the one being handled is the next, the   *)
(* ones waiting are those after it, and the kernel is what handling them   *)
(* in delivery order, each to its end, makes of it.                        *)
C16_InOrderOneAtATime ==
  LET started == Len(rxLog) + (IF busy = NoPayload THEN 0 ELSE 1)
  IN /\ started + Len(inbox) <= Len(delivered)
     /\ HandledPayloads = SubSeq(delivered, 1, Len(rxLog))
     /\ busy # NoPayload => busy = delivered[started]
     /\ \A i \in 1..Len(inbox) : inbox[i] = delivered[started + i]
     /\ routes = ApplyAll(HandledPayloads, EmptyRoutes, {}).routes
     /\ neigh = ApplyAll(HandledPayloads, EmptyRoutes, {}).neigh

\* Two Route ADDs for one destination were delivered; the first is handled
\* and its route held while the second is in the callback.
C16_Witness ==
  /\ delivered = <<RoutePayload("192.168.2.0/24", <<Seg3>>, "ADD"),
                   RoutePayload("192.168.2.0/24", <<Seg2, Seg3>>, "ADD")>>
  /\ HandledPayloads = <<delivered[1]>>
  /\ busy = delivered[2]
  /\ Len(RoutesAt(routes, <<100, ParseIPNet("192.168.2.0/24").net>>)) = 1
  /\ RoutesAt(routes, <<100, ParseIPNet("192.168.2.0/24").net>>)[1].encap.segments
       = <<Seg3>>

(* C17: the session asked of the broker is persistent exactly when the     *)
(* client identifier is non-empty and the QoS is at least 1; for every     *)
(* other identifier and QoS (0, 1, 2) it is clean.                         *)
C17_SessionPersistence ==
  /\ \A id \in ClientIDs, q \in QoSLevels :
       /\ SessionOf(id, q) = "persistent" <=> (id # "" /\ q >= 1)
       /\ SessionOf(id, q) = "clean" <=> ~(id # "" /\ q >= 1)
  /\ session # "none" =>
       /\ session = "persistent" <=> (clientID # "" /\ qos >= 1)
       /\ session = "clean" <=> ~(clientID # "" /\ qos >= 1)

\* A client with an identifier and QoS 1 is connected on a persistent
\* session.
C17_Witness ==
  /\ clientID = "agent-1"
  /\ qos = 1
  /\ conn = "up"
  /\ session = "persistent"

(* C18: on every successful connect, the first and each reconnect after a  *)
(* lost connection, OnConnect subscribes to the receive topic: whenever    *)
(* the client is connected, OnConnect has been started on that connection  *)
(* and the subscription is being or has been asked for, and no             *)
(* subscription is counted on a connection that is down.                   *)
C18_SubscribeOnEveryConnect ==
  /\ conn = "up" => sub # "none"
  /\ conn = "down" => sub = "none"

\* The connection was lost and made again, and the subscription asked for
\* on the new connection was granted.
C18_Witness ==
  /\ attempts >= 2
  /\ run = "waiting"
  /\ conn = "up"
  /\ sub = "granted"

(* C19, as claimed: a subscribe that fails or times out makes the client   *)
(* disconnect and retry, so a connected client has its subscription        *)
(* granted or still being asked for.                                       *)
C19_NoConnectionWithoutSubscription ==
  conn = "up" => sub \in {"pending", "requested", "granted"}

(* C20, as claimed: a failed connect is transient: Run does not return an  *)
(* error because of it, and neither the context is cancelled nor the local *)
(* server stopped because of it.                                           *)
C20_ConnectFailureTransient ==
  /\ run # "failed"
  /\ ctx = "live"
  /\ serving

(* C21, as claimed: with a persistent session, every Route the broker held *)
(* for the agent while it was down is given to the receive handler after   *)
(* the restart: none arrives between the connect and the registration of   *)
(* the subscription callback and is left without a handler.                *)
C21_QueuedRoutesProcessed == unhandled = <<>>

(* C22, as claimed: a publish on the send topic that fails is logged and   *)
(* dropped: there is a line in the log for every publish that failed.      *)
C22_PublishFailureLogged == Len(txLog) = txLost

(* C23, as claimed: a received envelope of another variant than Route is   *)
(* ignored with a log entry: as a Route is logged by the handler and a     *)
(* handler error by the callback, every payload handled has left at least  *)
(* one line in the log.                                                    *)
C23_OtherVariantsLogged == Len(rxLines) >= Len(rxLog)

(* C24: shutdown terminates: once the context is cancelled, by the first   *)
(* interrupt or terminate signal or by a task's error, the local service   *)
(* stops, the remote client disconnects and Run returns, and main, having  *)
(* seen both tasks return, ends: from every reachable state a cancelled    *)
(* context is eventually followed by the end of the process, with the      *)
(* server stopped and the connection to the broker down.                   *)
C24_ShutdownTerminates ==
  (ctx = "cancelled") ~> (main = "exited" /\ ~serving /\ conn = "down")

\* A signal came while both tasks were at work, and the process has ended
\* after Serve and Run returned nil.
C24_Witness ==
  /\ main = "exited"
  /\ ctx = "cancelled"
  /\ serve = "stopped"
  /\ run = "stopped"

(* C25, as claimed: the process ends with status 0 exactly on a clean      *)
(* shutdown, that is when both tasks returned nil, and with another status *)
(* after a fatal start-up failure or when a task returned an error.        *)
C25_ExitStatus ==
  main = "exited" => (exit = "zero" <=> (serve = "stopped" /\ run = "stopped"))

(* C26, as claimed: an error of one task cancels its sibling without any   *)
(* signal: once the accept loop of the local service has failed, or Run    *)
(* has returned an error, the context of both tasks is eventually          *)
(* cancelled (unless the process has ended in a panic before).             *)
C26_TaskErrorCancelsSibling ==
  (serve \in {"broken", "failed"} \/ run = "failed")
    ~> (ctx = "cancelled" \/ exit = "panic")

\* srv6_net is refused by the start-up check.
BadSrv6Config ==
  EncodeSRv6Endpoint(srv6cfg, AllOnes(VpcNibbles), AllOnes(AttNibbles)).err # NoErr

\* Nothing has been done yet: no socket bound, no connect attempted, no
\* route and no neighbour entry installed.
NothingStarted ==
  /\ serve = "init"
  /\ sock # "bound"
  /\ ~serving
  /\ run = "init"
  /\ attempts = 0
  /\ conn = "down"
  /\ routes = EmptyRoutes
  /\ neigh = {}

(* C27: the configured base prefix is checked at start-up, before anything *)
(* else, by one encoding of the identifiers ffffffffffff and ffff: until   *)
(* the check is made nothing is started, and when it fails the process     *)
(* ends with a non-zero status without having bound the socket, connected  *)
(* to the broker or changed kernel state.                                  *)
C27_StartupValidates ==
  /\ main = "start" => NothingStarted
  /\ BadSrv6Config /\ main # "start" =>
       /\ main = "exited"
       /\ exit = "nonzero"
       /\ NothingStarted
  /\ main = "running" => ~BadSrv6Config

\* The agent was started with a base prefix of 72 bits and has ended.
C27_Witness ==
  /\ srv6cfg.ones = 72
  /\ main = "exited"
  /\ exit = "nonzero"

(* C28: Serve unlinks a socket file left at the path before it binds, so   *)
(* that a leftover never makes the bind fail: with a stale file the socket *)
(* is bound exactly when it would be with none; and when the path cannot   *)
(* be unlinked, for another reason than its absence, Serve returns the     *)
(* error without binding.                                                  *)
C28_StaleSocketUnlinked ==
  [][serve = "init" /\ serve' # "init" =>
       /\ sock \in {"absent", "stale"} =>
            /\ serve' = "listening" <=> bindable
            /\ serve' = "listening" => sock' = "bound" /\ serving'
            /\ serve' # "listening" => serve' = "failed" /\ sock' = "absent"
            /\ removed' <=> sock = "stale"
       /\ sock = "locked" =>
            /\ serve' = "failed"
            /\ sock' = "locked"
            /\ ~serving'
            /\ ~removed']_vars

\* A stale socket file was unlinked and the socket bound in its place.
C28_Witness ==
  /\ removed
  /\ sock = "bound"
  /\ serve = "listening"

MissingDeviceRefused ==
  \A v \in {<<"1">>, <<"2">>} :
    LET e == Endpoint(v, <<"1">>)
        k == IngressAdd(links, routes, NewIPNet(e), v, <<"1">>, ~seg6)
    IN /\ HostDev(v, <<"1">>) \notin DOMAIN links =>
            k.err = "DeviceMissing" /\ k.routes = routes
       /\ /\ HostDev(v, <<"1">>) \in DOMAIN links
          /\ VrfDev(v, <<"1">>) \notin DOMAIN links
          => k.err = "VRFMissing" /\ k.routes = routes

(* C30: the agent never creates, deletes or heals a device: no step        *)
(* changes the devices or their VRF tables, and in every state IngressAdd  *)
(* for an attachment whose host device or VRF device is absent returns     *)
(* DeviceMissing or VRFMissing and installs no route.                      *)
C30_DevicesUntouched ==
  [][/\ links' = links
     /\ MissingDeviceRefused
     /\ MissingDeviceRefused']_vars

\* A Register for the attachment without VRF device has failed with
\* VRFMissing, the routes of its endpoint being what they were.
C30_Witness ==
  \E c \in Conns :
    /\ pc[c] = "done"
    /\ req[c].op = "Register"
    /\ VrfDev(req[c].vpc, req[c].att) \notin DOMAIN links
    /\ reply[c].err = "VRFMissing"
    /\ ingress[c].held = ingress[c].before

\* A base prefix of at most 64 bits, and identifiers of full width in hex.
CodecValidInput ==
  /\ codecIn.base.ones <= 64
  /\ Len(codecIn.vpc) = VpcNibbles /\ IsHexText(codecIn.vpc)
  /\ Len(codecIn.att) = AttNibbles /\ IsHexText(codecIn.att)

\* C31: for every base prefix of at most 64 bits and every valid 12-nibble
\* vpc and 4-nibble attachment, encoding succeeds and decoding the encoded
\* address returns exactly the two texts, leading zeros included.
C31_CodecRoundTrip ==
  CodecValidInput =>
    /\ codecEnc # NoCodec => codecEnc.err = NoErr
    /\ codecDec # NoCodec =>
         /\ codecDec.vpc = codecIn.vpc
         /\ codecDec.att = codecIn.att

C31_Witness ==
  /\ CodecValidInput
  /\ codecIn.base.ones = 64
  /\ codecIn.vpc = PadLeft(<<"a">>, VpcNibbles, "0")
  /\ codecDec # NoCodec
  /\ codecDec.vpc = codecIn.vpc

\* C32: every endpoint address encoded for a request lies within the
\* configured base prefix: its leading prefix-length bits are the base
\* prefix's, for every valid pair and every base prefix of at most 64 bits.
C32_EndpointWithinBase ==
  (CodecValidInput /\ codecEnc # NoCodec) =>
    /\ codecEnc.err = NoErr
    /\ \A i \in 1..8 :
         LET n == codecIn.base.ones
             bits == IF n >= 16 * i THEN 16
                     ELSE IF n <= 16 * (i - 1) THEN 0 ELSE n - 16 * (i - 1)
             shift == 2 ^ (16 - bits)
         IN codecEnc.ip[i] \div shift = codecIn.base.addr[i] \div shift

C32_Witness ==
  /\ CodecValidInput
  /\ codecIn.base.ones = 48
  /\ codecIn.vpc = PadLeft(<<>>, VpcNibbles, "f")
  /\ codecEnc # NoCodec
  /\ codecEnc.err = NoErr
  /\ SubSeq(codecEnc.ip, 1, 3) = <<8193, 3512, 1>>

\* The number written by four hex characters of a text, from the k-th on.
HexGroup(text, k) ==
  LET n(i) == DigitValue(HexAlphabet, text[k + i])
  IN 4096 * n(0) + 256 * n(1) + 16 * n(2) + n(3)

C36_ClientMadeBeforeSend == exit # "panic"

\* A payload is a Route message of the given status.
IsRoute(payload, status) ==
  payload.wire = "proto" /\ payload.env.kind = "Route" /\ payload.env.status = status

\* The kernel after the first i payloads of the log, from the empty one
\* the receive side found.
KernelAt(i) ==
  KernelAfter(links, [routes |-> EmptyRoutes, neigh |-> {}], SubSeq(rxLog, 1, i), ~seg6)

\* The table and destination of the egress route of a Route message.
EgressKeyOf(env) ==
  LET pair == PairOf(env.srv6_endpoint)
  IN <<GetVRFIdForVPC(links, pair.vpc, pair.att).table, ParseIPNet(env.network).net>>

\* C38: a Route DELETE undoes a Route ADD: from a kernel with no route for
\* the prefix in the pair's table and no proxy neighbour for it, an ADD
\* followed by a DELETE for the same network and endpoint leaves the kernel
\* as it was before the ADD, for a host prefix and for any other.
C38_DeleteUndoesAdd ==
  /\ KernelAt(Len(rxLog)) = [routes |-> routes, neigh |-> neigh]
  /\ \A i \in 1..(Len(rxLog) - 1) :
       LET add == rxLog[i].payload
           del == rxLog[i + 1].payload
       IN ( /\ IsRoute(add, "ADD") /\ IsRoute(del, "DELETE")
            /\ add.env.network = del.env.network
            /\ add.env.srv6_endpoint = del.env.srv6_endpoint
            /\ ParseSegments(del.env.srv6_segments).err = NoErr
            /\ RoutesAt(KernelAt(i - 1).routes, EgressKeyOf(add.env)) = <<>>
            /\ \A e \in KernelAt(i - 1).neigh :
                 e.ip # ParseIPNet(add.env.network).net.ip )
          => KernelAt(i + 1) = KernelAt(i - 1)

C38_Witness ==
  /\ Len(rxLog) = 2
  /\ rxLog[1] = [payload |-> RoutePayload("192.168.2.5/32", <<Seg3>>, "ADD"), errs |-> <<>>]
  /\ rxLog[2] = [payload |-> RoutePayload("192.168.2.5/32", <<Seg2, Seg3>>, "DELETE"),
                 errs |-> <<>>]
  /\ KernelAt(1).neigh # {}
  /\ KernelAt(1).routes # EmptyRoutes
  /\ routes = EmptyRoutes
  /\ neigh = {}

\* C39: EgressDelete finds the route to remove by destination, VRF table
\* and loopback device only: the handling of a Route DELETE whose segment
\* list parses removes the route held for the network, whatever segments
\* that route has, and the handling of one whose segment list does not
\* parse leaves routes and neighbour entries as they are.
C39_DeleteIgnoresSegments ==
  [][(busy # NoPayload /\ busy' = NoPayload /\ IsRoute(busy, "DELETE")) =>
       LET key == EgressKeyOf(busy.env)
           held == RoutesAt(routes, key)
       IN IF ParseSegments(busy.env.srv6_segments).err # NoErr
          THEN routes' = routes /\ neigh' = neigh
          ELSE (held # <<>> /\ held[1].dev = LoopbackDevice) =>
                 /\ RoutesAt(routes', key) = Tail(held)
                 /\ rxLog'[Len(rxLog')].errs = <<>>]_vars

\* A DELETE whose segment list does not parse was handled and the route
\* stayed; then one with other segments than the route's was handled and
\* the route is gone.
C39_Witness ==
  /\ Len(rxLog) = 3
  /\ rxLog[1] = [payload |-> RoutePayload("192.168.2.0/24", <<Seg3>>, "ADD"), errs |-> <<>>]
  /\ rxLog[2] = [payload |-> RoutePayload("192.168.2.0/24", << <<>> >>, "DELETE"),
                 errs |-> <<"InvalidSegments">>]
  /\ rxLog[3] = [payload |-> RoutePayload("192.168.2.0/24", <<Seg2, Seg3>>, "DELETE"),
                 errs |-> <<>>]
  /\ KernelAt(2).routes # EmptyRoutes
  /\ routes = EmptyRoutes

\* C34: last write wins: a destination of a table never holds two routes,
\* and whenever an install succeeds (a Route ADD handled without error, or
\* the ingress step of a Register), the one route then held for its
\* destination is the one just written, whatever was installed there
\* before and whatever the other handlers are doing.
C34_LastWriteWins ==
  [][/\ \A k \in DOMAIN routes' : Len(routes'[k]) = 1
     /\ (/\ busy # NoPayload /\ busy' = NoPayload /\ IsRoute(busy, "ADD")
         /\ rxLog'[Len(rxLog')].errs = <<>>) =>
          RoutesAt(routes', EgressKeyOf(busy.env)) =
            <<EgressRoute(ParseIPNet(busy.env.network).net, LoopbackDevice,
                          EgressKeyOf(busy.env)[1],
                          ParseSegments(busy.env.srv6_segments).segments)>>
     /\ \A c \in Conns :
          (pc[c] = "called" /\ pc'[c] = "publishing" /\ req[c].op = "Register") =>
            LET e == Endpoint(req[c].vpc, req[c].att)
                pair == PairOf(e)
            IN RoutesAt(routes', IngressKey(e)) =
                 <<IngressRoute(NewIPNet(e),
                                GenerateInterfaceNameHost(pair.vpc, pair.att),
                                GetVRFIdForVPC(links, pair.vpc, pair.att).table)>>]_vars

\* Two ADDs for one destination were handled, the second with other
\* segments, while a Register was between its ingress step and its reply;
\* the route held is the second's.
C34_Witness ==
  /\ Len(rxLog) = 2
  /\ rxLog[1] = [payload |-> RoutePayloadFor(<<"1">>, "192.168.2.0/24", <<Seg3>>, "ADD"),
                 errs |-> <<>>]
  /\ rxLog[2] = [payload |-> RoutePayloadFor(<<"1">>, "192.168.2.0/24", <<Seg2, Seg3>>, "ADD"),
                 errs |-> <<>>]
  /\ RoutesAt(routes, EgressKeyOf(rxLog[2].payload.env))[1].encap.segments = <<Seg2, Seg3>>
  /\ pc["c1"] = "publishing" /\ req["c1"].op = "Register" /\ req["c1"].vpc = <<"1">>
  /\ pc["c2"] = "publishing" /\ req["c2"].op = "Register" /\ req["c2"].vpc = <<"1">>
  /\ Len(RoutesAt(routes, IngressKey(Endpoint(<<"1">>, <<"1">>)))) = 1

\* C37: an operation for an endpoint changes only kernel objects of the
\* pair decoded from it: the handling of a Route message changes only
\* routes in the pair's VRF table and neighbour entries on the pair's host
\* device; the ingress step of Register or Deregister changes only the
\* ingress route whose destination is the endpoint, and no neighbour entry.
C37_TenantIsolation ==
  [][/\ (busy # NoPayload /\ busy' = NoPayload /\ busy.wire = "proto"
          /\ busy.env.kind = "Route") =>
          LET pair == PairOf(busy.env.srv6_endpoint)
              table == GetVRFIdForVPC(links, pair.vpc, pair.att).table
              dev == GenerateInterfaceNameHost(pair.vpc, pair.att)
          IN /\ \A k \in DOMAIN routes \cup DOMAIN routes' :
                  k[1] # table => RoutesAt(routes', k) = RoutesAt(routes, k)
             /\ \A e \in neigh \cup neigh' :
                  e.dev # dev => (e \in neigh <=> e \in neigh')
     /\ \A c \in Conns :
          (pc[c] = "called" /\ pc'[c] # "called") =>
            /\ neigh' = neigh
            /\ \A k \in DOMAIN routes \cup DOMAIN routes' :
                 k # IngressKey(Endpoint(req[c].vpc, req[c].att))
                   => RoutesAt(routes', k) = RoutesAt(routes, k)]_vars

\* The other attachment's host route and proxy neighbour were installed
\* and its endpoint registered; then an ADD for this attachment was handled
\* and its endpoint registered, and the other's objects are all held.
C37_Witness ==
  /\ Len(rxLog) = 2
  /\ rxLog[1] = [payload |-> RoutePayloadFor(<<"2">>, "192.168.2.5/32", <<Seg3>>, "ADD"),
                 errs |-> <<>>]
  /\ rxLog[2] = [payload |-> RoutePayloadFor(<<"1">>, "192.168.2.0/24", <<Seg3>>, "ADD"),
                 errs |-> <<>>]
  /\ RoutesAt(routes, EgressKeyOf(rxLog[1].payload.env)) # <<>>
  /\ RoutesAt(routes, EgressKeyOf(rxLog[2].payload.env)) # <<>>
  /\ \E e \in neigh : e.dev = HostDev(<<"2">>, <<"1">>)
  /\ RoutesAt(routes, IngressKey(Endpoint(<<"2">>, <<"1">>))) # <<>>
  /\ RoutesAt(routes, IngressKey(Endpoint(<<"1">>, <<"1">>))) # <<>>
  /\ pc["c1"] = "done" /\ req["c1"].vpc = <<"1">>
====
